---- MODULE Spec2Model ----
(***************************************************************************)
(* Retry-governed external-call orchestration of the Core 5/6 analysis     *)
(* platform: the error classifier, the backoff calculator and the retry    *)
(* executor (lib/retry, shipped inside core5-analysis-generator.ts).       *)
(*                                                                         *)
(* JavaScript strings that the code inspects with includes()/toLowerCase() *)
(* are modelled as sequences of one-character strings, so that substring   *)
(* search and case folding are computed and not assumed.                   *)
(***************************************************************************)
EXTENDS Integers, Sequences, FiniteSets, TLC

(***************************************************************************)
(* Bounds of the model.                                                    *)
(***************************************************************************)
\* attempts one withRetry call may make in the model (the code has no bound)
MaxAttempts == 4
\* length of the delay sequence computed for one retry config
MaxDelaySteps == 8

(***************************************************************************)
(* JavaScript values and string primitives.                                *)
(***************************************************************************)
\* a property that is undefined / missing
Absent == [t |-> "absent", s |-> <<>>, n |-> 0]
\* a string value
Str(s) == [t |-> "string", s |-> s, n |-> 0]
\* a non-string, non-nullish value (here a number): it has no toLowerCase
Num(n) == [t |-> "number", s |-> <<>>, n |-> n]

UpperChars == <<"A", "B", "C", "D", "E", "F", "G", "H", "I", "J", "K", "L", "M", "N", "O", "P", "Q", "R", "S", "T", "U", "V", "W", "X", "Y", "Z">>
LowerChars == <<"a", "b", "c", "d", "e", "f", "g", "h", "i", "j", "k", "l", "m", "n", "o", "p", "q", "r", "s", "t", "u", "v", "w", "x", "y", "z">>

\* String.prototype.toLowerCase on one character
LowerChar(c) ==
  IF \E i \in 1..Len(UpperChars) : UpperChars[i] = c
    THEN LowerChars[CHOOSE i \in 1..Len(UpperChars) : UpperChars[i] = c]
    ELSE c

\* String.prototype.toLowerCase
ToLowerCase(s) == [i \in 1..Len(s) |-> LowerChar(s[i])]

\* String.prototype.includes: pat occurs in s as a contiguous substring
Includes(s, pat) ==
  \E i \in 0..(Len(s) - Len(pat)) : SubSeq(s, i + 1, i + Len(pat)) = pat

\* Math.min
Min(a, b) == IF a <= b THEN a ELSE b

RECURSIVE Pow(_, _)
\* Math.pow for a non-negative integer exponent
Pow(b, e) == IF e = 0 THEN 1 ELSE b * Pow(b, e - 1)

(***************************************************************************)
(* Message texts.                                                          *)
(***************************************************************************)
TextRateLimit == <<"R", "a", "t", "e", " ", "l", "i", "m", "i", "t", " ", "e", "x", "c", "e", "e", "d", "e", "d">>
TextServerError == <<"S", "e", "r", "v", "e", "r", " ", "e", "r", "r", "o", "r", " ", "o", "c", "c", "u", "r", "r", "e", "d">>
TextAuthFailed == <<"A", "u", "t", "h", "e", "n", "t", "i", "c", "a", "t", "i", "o", "n", " ", "f", "a", "i", "l", "e", "d", ".", " ", "C", "h", "e", "c", "k", " ", "y", "o", "u", "r", " ", "A", "P", "I", " ", "k", "e", "y", " ", "i", "n", " ", ".", "e", "n", "v", ".", "l", "o", "c", "a", "l">>
TextInvalidRequest == <<"I", "n", "v", "a", "l", "i", "d", " ", "r", "e", "q", "u", "e", "s", "t">>
TextNetwork == <<"N", "e", "t", "w", "o", "r", "k", " ", "c", "o", "n", "n", "e", "c", "t", "i", "o", "n", " ", "e", "r", "r", "o", "r">>
TextTimedOut == <<"R", "e", "q", "u", "e", "s", "t", " ", "t", "i", "m", "e", "d", " ", "o", "u", "t">>
TextParseFailed == <<"F", "a", "i", "l", "e", "d", " ", "t", "o", " ", "p", "a", "r", "s", "e", " ", "A", "P", "I", " ", "r", "e", "s", "p", "o", "n", "s", "e">>
TextInvalidImage == <<"I", "n", "v", "a", "l", "i", "d", " ", "i", "m", "a", "g", "e", " ", "p", "r", "o", "v", "i", "d", "e", "d">>
TextUnknown == <<"U", "n", "k", "n", "o", "w", "n", " ", "e", "r", "r", "o", "r", " ", "o", "c", "c", "u", "r", "r", "e", "d">>
TextNotAFunction == <<"t", "o", "L", "o", "w", "e", "r", "C", "a", "s", "e", " ", "i", "s", " ", "n", "o", "t", " ", "a", " ", "f", "u", "n", "c", "t", "i", "o", "n">>
TextCallback == <<"c", "a", "l", "l", "b", "a", "c", "k", " ", "f", "a", "i", "l", "e", "d">>

PatTimeout == <<"t", "i", "m", "e", "o", "u", "t">>
PatJSON == <<"J", "S", "O", "N">>
PatParse == <<"p", "a", "r", "s", "e">>
PatNoJSONFound == <<"N", "o", " ", "J", "S", "O", "N", " ", "f", "o", "u", "n", "d">>
PatInvalidOrBlank == <<"I", "n", "v", "a", "l", "i", "d", " ", "o", "r", " ", "b", "l", "a", "n", "k", " ", "i", "m", "a", "g", "e">>
PatBlank == <<"b", "l", "a", "n", "k">>
PatWhite == <<"w", "h", "i", "t", "e">>

MsgEmpty == Str(<<>>)
MsgBoom == Str(<<"b", "o", "o", "m">>)
MsgTimeoutLower == Str(<<"t", "i", "m", "e", "o", "u", "t">>)
MsgTimeoutUpper == Str(<<"T", "i", "m", "e", "o", "u", "t">>)
MsgJSON == Str(<<"b", "a", "d", " ", "J", "S", "O", "N">>)
MsgJsonLower == Str(<<"j", "s", "o", "n">>)
MsgParse == Str(<<"p", "a", "r", "s", "e">>)
MsgNoJSONFound == Str(<<"N", "o", " ", "J", "S", "O", "N", " ", "f", "o", "u", "n", "d">>)
MsgParseBlank == Str(<<"p", "a", "r", "s", "e", " ", "b", "l", "a", "n", "k">>)
MsgParseTimeout == Str(<<"p", "a", "r", "s", "e", " ", "t", "i", "m", "e", "o", "u", "t">>)
MsgInvalidImage == Str(<<"I", "n", "v", "a", "l", "i", "d", " ", "o", "r", " ", "b", "l", "a", "n", "k", " ", "i", "m", "a", "g", "e">>)
MsgWhite == Str(<<"w", "h", "i", "t", "e">>)
MsgBlankTimeout == Str(<<"b", "l", "a", "n", "k", " ", "T", "i", "m", "e", "o", "u", "t">>)

(***************************************************************************)
(* Thrown values.  status = 0 and code = "" / name = "" stand for a        *)
(* missing (falsy) property; kind tells null, undefined and primitives     *)
(* (on which every property read gives undefined) from objects.            *)
(***************************************************************************)
ErrObj(status, code, name, message) ==
  [kind |-> "object", status |-> status, code |-> code, name |-> name, message |-> message]

NonObject(kind) ==
  [kind |-> kind, status |-> 0, code |-> "", name |-> "", message |-> Absent]

Statuses == {0, 200, 400, 401, 403, 404, 429, 499, 500, 503, 599, 600}
Codes == {"", "ECONNRESET", "ETIMEDOUT", "ENOTFOUND", "ECONNREFUSED", "EPIPE", "EHOSTUNREACH", "EACCES"}
Names == {"", "Error", "TimeoutError"}
Messages == {Absent, Num(42), MsgEmpty, MsgBoom, MsgTimeoutLower, MsgTimeoutUpper, MsgJSON, MsgJsonLower, MsgParse, MsgNoJSONFound, MsgParseBlank, MsgParseTimeout, MsgInvalidImage, MsgWhite, MsgBlankTimeout}

\* every value the classifier is applied to
ErrorValues ==
  {NonObject(k) : k \in {"null", "undefined", "primitive"}}
    \cup {ErrObj(st, cd, nm, m) : st \in Statuses, cd \in Codes, nm \in Names, m \in Messages}

(***************************************************************************)
(* classifyError                                                           *)
(***************************************************************************)
Classification(isRetryable, errorType, statusCode, message) ==
  [outcome |-> "returns", isRetryable |-> isRetryable, errorType |-> errorType,
   statusCode |-> statusCode, message |-> message]

\* no rule of the current block matched: control falls to the next block
FallsThrough ==
  [outcome |-> "falls_through", isRetryable |-> FALSE, errorType |-> "", statusCode |-> 0, message |-> <<>>]

\* evaluating the classifier raised a TypeError
ThrowsTypeError ==
  [outcome |-> "throws", isRetryable |-> FALSE, errorType |-> "", statusCode |-> 0, message |-> TextNotAFunction]

RateLimitClassification(status) == Classification(TRUE, "rate_limit", status, TextRateLimit)
ServerErrorClassification(status) == Classification(TRUE, "server_error", status, TextServerError)
AuthErrorClassification(status) == Classification(FALSE, "auth_error", status, TextAuthFailed)
ClientErrorClassification(status) == Classification(FALSE, "client_error", status, TextInvalidRequest)
NetworkErrorClassification == Classification(TRUE, "network_error", 0, TextNetwork)
TimeoutClassification == Classification(TRUE, "timeout", 0, TextTimedOut)
ParsingClassificationNotRetried == Classification(FALSE, "parsing_error", 0, TextParseFailed)
ParsingClassification == Classification(TRUE, "parsing_error", 0, TextParseFailed)
InvalidImageClassification == Classification(FALSE, "client_error", 0, TextInvalidImage)
\* message: error?.message || 'Unknown error occurred'
UnknownClassification(error) ==
  Classification(TRUE, "unknown", 0,
    IF error.message.t = "string" /\ error.message.s # <<>> THEN error.message.s
    ELSE TextUnknown)

\* if (error?.status) { ... }
StatusRules(error) ==
  LET status == error.status IN
  IF status = 0 THEN FallsThrough
  ELSE IF status = 429 THEN RateLimitClassification(status)
  ELSE IF status >= 500 /\ status < 600 THEN ServerErrorClassification(status)
  ELSE IF status = 401 \/ status = 403 THEN AuthErrorClassification(status)
  ELSE IF status >= 400 /\ status < 500 THEN ClientErrorClassification(status)
  ELSE FallsThrough

retryableCodes == {"ECONNRESET", "ETIMEDOUT", "ENOTFOUND", "ECONNREFUSED", "EPIPE", "EHOSTUNREACH"}

\* if (error?.code) { if (retryableCodes.includes(error.code)) ... }
NetworkRules(error) ==
  IF error.code # "" /\ error.code \in retryableCodes THEN NetworkErrorClassification
  ELSE FallsThrough

\* error?.message?.toLowerCase(): a non-nullish message without that method
MessageCallThrows(error) == error.message.t = "number"

\* error?.message?.includes(pat), undefined (falsy) when there is no message
MessageIncludes(error, pat) ==
  error.message.t = "string" /\ Includes(error.message.s, pat)

\* the timeout test; reached only when its first operand did not throw
TimeoutRules(error) ==
  IF MessageCallThrows(error) THEN ThrowsTypeError
  ELSE IF \/ (error.message.t = "string"
               /\ Includes(ToLowerCase(error.message.s), PatTimeout))
          \/ error.name = "TimeoutError"
          \/ error.code = "ETIMEDOUT"
    THEN TimeoutClassification
  ELSE FallsThrough

ParsingRules(error) ==
  IF \/ MessageIncludes(error, PatJSON)
     \/ MessageIncludes(error, PatParse)
     \/ MessageIncludes(error, PatNoJSONFound)
    THEN ParsingClassification
  ELSE FallsThrough

InvalidImageRules(error) ==
  IF \/ MessageIncludes(error, PatInvalidOrBlank)
     \/ MessageIncludes(error, PatBlank)
     \/ MessageIncludes(error, PatWhite)
    THEN InvalidImageClassification
  ELSE FallsThrough

\* the first rule block of the list that does not fall through
RECURSIVE FirstMatch(_)
FirstMatch(blocks) ==
  IF Len(blocks) = 1 \/ Head(blocks).outcome # "falls_through" THEN Head(blocks)
  ELSE FirstMatch(Tail(blocks))

\* the same rule blocks with the network codes consulted before the status
classifyErrorNetworkFirst(error) ==
  FirstMatch(<<NetworkRules(error), StatusRules(error), TimeoutRules(error),
               ParsingRules(error), InvalidImageRules(error), UnknownClassification(error)>>)

classifyError(error) ==
  FirstMatch(<<StatusRules(error), NetworkRules(error), TimeoutRules(error),
               ParsingRules(error), InvalidImageRules(error), UnknownClassification(error)>>)

(***************************************************************************)
(* Retry configuration and calculateDelay                                  *)
(***************************************************************************)
RetryConfig(initialDelayMs, maxDelayMs, backoffMultiplier, timeout, onRetry) ==
  [initialDelayMs |-> initialDelayMs, maxDelayMs |-> maxDelayMs,
   backoffMultiplier |-> backoffMultiplier, timeout |-> timeout, onRetry |-> onRetry]

DEFAULT_OCR_RETRY_CONFIG == RetryConfig(1000, 30000, 2, 30000, FALSE)
DEFAULT_POLL_RETRY_CONFIG == RetryConfig(2000, 60000, 2, 60000, FALSE)

\* { ...config, onRetry: ... }
WithOnRetry(config) == [config EXCEPT !.onRetry = TRUE]

\* the delay without the cap
calculateDelayUncapped(attempt, config) ==
  config.initialDelayMs * Pow(config.backoffMultiplier, attempt - 1)

calculateDelay(attempt, config) ==
  LET delay == config.initialDelayMs * Pow(config.backoffMultiplier, attempt - 1)
  IN  Min(delay, config.maxDelayMs)

(***************************************************************************)
(* withRetry: the parts of the catch block                                 *)
(***************************************************************************)
\* let attempt = 0
InitAttempt(att, c) == [att EXCEPT ![c] = 0]

\* a counter kept outside the call, shared by every call in flight
IncrementAttemptShared(att, c) == [d \in DOMAIN att |-> att[d] + 1]

\* attempt++
IncrementAttempt(att, c) == [att EXCEPT ![c] = @ + 1]

\* throw new Error(classification.message)
PermanentFailureWrapped(error, classification) ==
  ErrObj(0, "", "Error", Str(classification.message))

\* throw error
PermanentFailure(error, classification) == error

\* onRetry called with the number of the attempt that is about to start
RetryCallbackArgsNextAttempt(att, error, delay) ==
  [attempt |-> att + 1, error |-> error, nextDelay |-> delay]

\* config.onRetry(attempt, error, delay)
RetryCallbackArgs(att, error, delay) ==
  [attempt |-> att, error |-> error, nextDelay |-> delay]

\* what the message.toLowerCase call raises inside classifyError
TypeErrorValue == ErrObj(0, "", "TypeError", Str(TextNotAFunction))
\* what a failing onRetry callback raises
CallbackError == ErrObj(0, "", "Error", Str(TextCallback))

(***************************************************************************)
(* State                                                                   *)
(***************************************************************************)
VARIABLES
  \* the classifier applied to one thrown value
  thrown,          \* the value handed to classifyError
  classification,  \* its result, or Unclassified
  \* the backoff calculator applied to one config
  delayConfig,     \* the retry config
  delaySeq,        \* calculateDelay(1, .), calculateDelay(2, .), ...
  \* withRetry, per call in flight
  pc,              \* idle, awaiting (fn in flight), sleeping, resolved, rejected
  config,          \* the call's RetryConfig
  attempt,         \* the call's local attempt counter
  invocations,     \* how often the call invoked fn
  inFlight,        \* invocations of fn that have not settled
  failures,        \* the errors fn rejected with, in order
  delays,          \* the delays the catch block computed, in order
  retryCalls,      \* the argument lists onRetry was invoked with, in order
  sleeps,          \* the durations passed to sleep, in order
  produced,        \* the value fn resolved with
  settled,         \* how the withRetry promise settled
  callbackThrew    \* onRetry threw during the call

VARIABLES
  \* one call of an LLM adapter (runPollSimulation / extractDataFromScreenshot)
  llmAdapter,      \* "poll" or "ocr"
  llmPc,           \* idle, awaiting (request in flight), sleeping, done
  llmAttempt,      \* withRetry's attempt counter of the call
  llmRequests,     \* requests sent to the LLM service
  llmReply,        \* the service's reply to the latest request
  llmResult        \* how the adapter's promise settled

llmVars == <<llmAdapter, llmPc, llmAttempt, llmRequests, llmReply, llmResult>>

classifyVars == <<thrown, classification>>
delayVars == <<delayConfig, delaySeq>>
retryVars == <<pc, config, attempt, invocations, inFlight, failures, delays,
               retryCalls, sleeps, produced, settled, callbackThrew>>
VARIABLES
  \* one call of ScrapeOpsClient.fetchProduct
  scAsin,          \* the ASIN asked for
  scPc,            \* idle, awaiting (request in flight), sleeping, done
  scAttempt,       \* withRetry's attempt counter of the call
  scRequests,      \* requests sent to the scraping service
  scLog,           \* the service's replies, in order
  scFailed,        \* attempts in which the unit of work threw
  scResult         \* how the fetchProduct promise settled

scrapeVars == <<scAsin, scPc, scAttempt, scRequests, scLog, scFailed, scResult>>

VARIABLES
  \* one call of AmazonProductFetcher.fetchBulkProducts
  bAsins,          \* the asins argument
  bOnProgress,     \* whether an onProgress callback was passed
  bI,              \* the loop index, counted from 1
  bPc,             \* idle, fetching, delaying, done
  bInFlight,       \* fetchAndProcessProduct calls that have not settled
  bFetched,        \* what the fetch of each item begun so far did
  bResults,        \* the results array
  bTrace,          \* begin / end of each iteration and the delays slept
  bReturn          \* how the fetchBulkProducts promise settled

bulkVars == <<bAsins, bOnProgress, bI, bPc, bInFlight, bFetched, bResults, bTrace, bReturn>>

VARIABLES
  \* one call of validatePollResult
  pvPc,            \* idle, done
  pvRankings,      \* the percentages of result.rankings, in hundredths of a percent
  pvSamples,       \* result.sampleResponses.length
  pvVerdict        \* what validatePollResult returned

verdictVars == <<pvPc, pvRankings, pvSamples, pvVerdict>>

VARIABLES
  \* one request to one of the route handlers /api/ocr, /api/poll, /api/scrape
  rEndpoint,       \* the route
  rBody,           \* the request body
  rHasKey,         \* whether SCRAPEOPS_API_KEY is set
  rPc,             \* idle, calling, serializing, done
  rFetcher,        \* whether the handler's fetcher variable holds a fetcher
  rCache,          \* the keys of the fetcher's imageCache
  rObjectUrls,     \* the fetcher's objectUrls
  rCachedEver,     \* whether an image was cached during the request
  rServiceCalls,   \* calls made to the service behind the route
  rFailure,        \* the failure underlying a rejection of the service
  rOtherFailure,   \* a failure that is not a rejection of the service
  rStatus,         \* the HTTP status of the response, 0 before it
  rHasResult,      \* whether the response carries the structured result
  rCleanupRan      \* whether the finally block called fetcher.cleanup()

routeVars == <<rEndpoint, rBody, rHasKey, rPc, rFetcher, rCache, rObjectUrls, rCachedEver,
               rServiceCalls, rFailure, rOtherFailure, rStatus, rHasResult, rCleanupRan>>

VARIABLES
  \* one call of ScrapeOpsClient.fetchBulkProducts
  sbAsins,         \* the asins argument
  sbI,             \* the position of the loop in asins, counted from 1
  sbPc,            \* idle, fetching, delaying, done
  sbInFlight,      \* fetchProduct calls that have not settled
  sbOutcomes,      \* what fetchProduct did for each item so far
  sbResults,       \* the results array
  sbTrace,         \* the fetches begun and settled and the delays slept
  sbReturn         \* the array returned, once returned

scraperBulkVars == <<sbAsins, sbI, sbPc, sbInFlight, sbOutcomes, sbResults, sbTrace, sbReturn>>

VARIABLES
  \* one call of convertToRankings
  crPc,            \* idle, done
  crProducts,      \* the products argument
  crEntries,       \* the rankings argument as passed in
  crSorted,        \* the entries after rankings.sort
  crRankings       \* the array returned

rankingsVars == <<crPc, crProducts, crEntries, crSorted, crRankings>>

VARIABLES
  \* two runs of the diagnostic endpoint GET handler
  dgDone,          \* whether each run has answered
  dgKey,           \* process.env.ANTHROPIC_API_KEY of each run
  dgEnv,           \* process.env.NODE_ENV of each run
  dgResponse       \* the JSON text each run answered with

diagnosticVars == <<dgDone, dgKey, dgEnv, dgResponse>>

VARIABLES
  \* one call of ScrapeOpsDataParser.parseShippingDays
  psPc,            \* idle, done
  psText,          \* the shippingText argument
  psToday,         \* the day on which the call is made
  psDays           \* the number returned

shippingVars == <<psPc, psText, psToday, psDays>>

VARIABLES
  \* the analysis wizard: the reducer's state and the browser's storage
  wzState,         \* the AppState fields that step navigation reads
  lsItem,          \* the item under 'amazon-analysis-state': absent, full, withoutImages
  wzSave           \* how the save of the last dispatch ended: none, saved, savedWithoutImages, failed

wizardVars == <<wzState, lsItem, wzSave>>

VARIABLES
  \* one image-based call of runPollSimulation
  ipPc,            \* idle, awaiting, sleeping, answered, done
  ipPollType,      \* main_image or image_stack
  ipKinds,         \* per product, whether processBase64Image accepts its image data
  ipPromptOrder,   \* the products in the order of the text prompt's list
  ipContent,       \* the labels and images of the current attempt's message
  ipAttempt,       \* withRetry's attempt counter
  ipRequests,      \* the calls of anthropic.messages.create
  ipResult         \* how runPollSimulation's promise ended

imagePollVars ==
  <<ipPc, ipPollType, ipKinds, ipPromptOrder, ipContent, ipAttempt, ipRequests, ipResult>>

notLlmVars == <<classifyVars, delayVars, retryVars, scrapeVars, bulkVars, verdictVars, routeVars, scraperBulkVars, rankingsVars, diagnosticVars, shippingVars, wizardVars, imagePollVars>>
notScrapeVars == <<classifyVars, delayVars, retryVars, llmVars, bulkVars, verdictVars, routeVars, scraperBulkVars, rankingsVars, diagnosticVars, shippingVars, wizardVars, imagePollVars>>
notBulkVars == <<classifyVars, delayVars, retryVars, llmVars, scrapeVars, verdictVars, routeVars, scraperBulkVars, rankingsVars, diagnosticVars, shippingVars, wizardVars, imagePollVars>>
notVerdictVars == <<classifyVars, delayVars, retryVars, llmVars, scrapeVars, bulkVars, routeVars, scraperBulkVars, rankingsVars, diagnosticVars, shippingVars, wizardVars, imagePollVars>>
notRouteVars == <<classifyVars, delayVars, retryVars, llmVars, scrapeVars, bulkVars, verdictVars, scraperBulkVars, rankingsVars, diagnosticVars, shippingVars, wizardVars, imagePollVars>>
notScraperBulkVars == <<classifyVars, delayVars, retryVars, llmVars, scrapeVars, bulkVars, verdictVars, routeVars, rankingsVars, diagnosticVars, shippingVars, wizardVars, imagePollVars>>
notRankingsVars == <<classifyVars, delayVars, retryVars, llmVars, scrapeVars, bulkVars, verdictVars, routeVars, scraperBulkVars, diagnosticVars, shippingVars, wizardVars, imagePollVars>>
notDiagnosticVars == <<classifyVars, delayVars, retryVars, llmVars, scrapeVars, bulkVars, verdictVars, routeVars, scraperBulkVars, rankingsVars, shippingVars, wizardVars, imagePollVars>>
notShippingVars == <<classifyVars, delayVars, retryVars, llmVars, scrapeVars, bulkVars, verdictVars, routeVars, scraperBulkVars, rankingsVars, diagnosticVars, wizardVars, imagePollVars>>
notWizardVars == <<classifyVars, delayVars, retryVars, llmVars, scrapeVars, bulkVars, verdictVars, routeVars, scraperBulkVars, rankingsVars, diagnosticVars, shippingVars, imagePollVars>>
notImagePollVars == <<classifyVars, delayVars, retryVars, llmVars, scrapeVars, bulkVars, verdictVars, routeVars, scraperBulkVars, rankingsVars, diagnosticVars, shippingVars, wizardVars>>
\* the variables of the subsystems around the retry core
laterVars == <<llmVars, scrapeVars, bulkVars, verdictVars, routeVars, scraperBulkVars, rankingsVars, diagnosticVars, shippingVars, wizardVars, imagePollVars>>

vars == <<classifyVars, delayVars, retryVars, laterVars>>

\* the withRetry calls that may be in flight together
Calls == {1, 2}

\* values a unit of work resolves with
Values == {"value_a", "value_b"}

Unclassified ==
  [outcome |-> "pending", isRetryable |-> FALSE, errorType |-> "", statusCode |-> 0, message |-> <<>>]

Pending == [how |-> "pending", value |-> "", error |-> NonObject("undefined")]
ResolvedWith(v) == [how |-> "resolved", value |-> v, error |-> NonObject("undefined")]
RejectedWith(e) == [how |-> "rejected", value |-> "", error |-> e]

NoConfig == RetryConfig(0, 0, 0, 0, FALSE)

NoReply ==
  [kind |-> "none", error |-> NonObject("undefined"), contentType |-> "", text |-> <<>>, parses |-> FALSE]
Unsettled == [how |-> "pending", message |-> <<>>]

LlmIdle ==
  /\ llmAdapter = "poll"
  /\ llmPc = "idle"
  /\ llmAttempt = 0
  /\ llmRequests = 0
  /\ llmReply = NoReply
  /\ llmResult = Unsettled

NoScrapeReply == [http |-> 0, status |-> <<>>]
ScrapeUnsettled == [how |-> "pending", parsedFrom |-> NoScrapeReply, error |-> NonObject("undefined")]

ScrapeIdle ==
  /\ scAsin = <<>>
  /\ scPc = "idle"
  /\ scAttempt = 0
  /\ scRequests = 0
  /\ scLog = <<>>
  /\ scFailed = 0
  /\ scResult = ScrapeUnsettled

BulkPending == [how |-> "pending", results |-> <<>>, successCount |-> 0,
                failedCount |-> 0, needsReviewCount |-> 0]

BulkIdle ==
  /\ bAsins = <<>>
  /\ bOnProgress = FALSE
  /\ bI = 0
  /\ bPc = "idle"
  /\ bInFlight = 0
  /\ bFetched = <<>>
  /\ bResults = <<>>
  /\ bTrace = <<>>
  /\ bReturn = BulkPending

VerdictIdle ==
  /\ pvPc = "idle"
  /\ pvRankings = <<>>
  /\ pvSamples = 0
  /\ pvVerdict = FALSE

NoBody ==
  [parses |-> FALSE, image |-> FALSE, products |-> 0, demographic |-> FALSE,
   question |-> FALSE, pollType |-> "", asin |-> <<>>, hasAsins |-> FALSE, asins |-> <<>>]

RouteIdle ==
  /\ rEndpoint = ""
  /\ rBody = NoBody
  /\ rHasKey = FALSE
  /\ rPc = "idle"
  /\ rFetcher = FALSE
  /\ rCache = {}
  /\ rObjectUrls = {}
  /\ rCachedEver = FALSE
  /\ rServiceCalls = 0
  /\ rFailure = NonObject("undefined")
  /\ rOtherFailure = FALSE
  /\ rStatus = 0
  /\ rHasResult = FALSE
  /\ rCleanupRan = FALSE

ScraperBulkIdle ==
  /\ sbAsins = <<>>
  /\ sbI = 0
  /\ sbPc = "idle"
  /\ sbInFlight = 0
  /\ sbOutcomes = <<>>
  /\ sbResults = <<>>
  /\ sbTrace = <<>>
  /\ sbReturn = [returned |-> FALSE, results |-> <<>>]

RankingsIdle ==
  /\ crPc = "idle"
  /\ crProducts = <<>>
  /\ crEntries = <<>>
  /\ crSorted = <<>>
  /\ crRankings = <<>>

DiagnosticRuns == {1, 2}

DiagnosticIdle ==
  /\ dgDone = [r \in DiagnosticRuns |-> FALSE]
  /\ dgKey = [r \in DiagnosticRuns |-> Absent]
  /\ dgEnv = [r \in DiagnosticRuns |-> Absent]
  /\ dgResponse = [r \in DiagnosticRuns |-> <<>>]

ShippingIdle ==
  /\ psPc = "idle"
  /\ psText = <<>>
  /\ psToday = [month |-> 1, day |-> 1]
  /\ psDays = 0

ProductEntry == "product"

\* the state loadStateFromStorage returns when nothing is stored
FreshState ==
  [analysisType |-> "null",
   currentStep |-> 1,
   products |-> <<>>,
   polls |-> [mainImage |-> "null", imageStack |-> "null", features |-> "null"],
   calculations |-> "null"]

WizardIdle ==
  /\ wzState = FreshState
  /\ lsItem = "absent"
  /\ wzSave = "none"

ImagePollIdle ==
  /\ ipPc = "idle"
  /\ ipPollType = "main_image"
  /\ ipKinds = <<>>
  /\ ipPromptOrder = <<>>
  /\ ipContent = <<>>
  /\ ipAttempt = 0
  /\ ipRequests = 0
  /\ ipResult = [how |-> "pending", message |-> <<>>]

LaterIdle == LlmIdle /\ ScrapeIdle /\ BulkIdle /\ VerdictIdle /\ RouteIdle /\ ScraperBulkIdle /\ RankingsIdle /\ DiagnosticIdle /\ ShippingIdle /\ WizardIdle /\ ImagePollIdle

ClassifyIdle == thrown = NonObject("undefined") /\ classification = Unclassified
DelayIdle == delayConfig = NoConfig /\ delaySeq = <<>>
RetryIdle ==
  /\ pc = [c \in Calls |-> "idle"]
  /\ config = [c \in Calls |-> NoConfig]
  /\ attempt = [c \in Calls |-> 0]
  /\ invocations = [c \in Calls |-> 0]
  /\ inFlight = [c \in Calls |-> 0]
  /\ failures = [c \in Calls |-> <<>>]
  /\ delays = [c \in Calls |-> <<>>]
  /\ retryCalls = [c \in Calls |-> <<>>]
  /\ sleeps = [c \in Calls |-> <<>>]
  /\ produced = [c \in Calls |-> ""]
  /\ settled = [c \in Calls |-> Pending]
  /\ callbackThrew = [c \in Calls |-> FALSE]

(***************************************************************************)
(* The classifier applied to every thrown value                            *)
(***************************************************************************)
InitClassify ==
  /\ thrown \in ErrorValues
  /\ classification = Unclassified
  /\ DelayIdle
  /\ RetryIdle
  /\ LaterIdle

Classify ==
  /\ classification.outcome = "pending"
  /\ classification' = classifyError(thrown)
  /\ UNCHANGED <<thrown, delayVars, retryVars, laterVars>>

NextClassify == Classify

SpecClassify == InitClassify /\ [][NextClassify]_vars

(***************************************************************************)
(* The backoff calculator applied to attempt 1, 2, ... of one config       *)
(***************************************************************************)
\* policies with initialDelay <= maxDelay and multiplier > 1
DelayConfigs ==
  {DEFAULT_OCR_RETRY_CONFIG, DEFAULT_POLL_RETRY_CONFIG}
    \cup {RetryConfig(i, m, b, 10, FALSE) : i \in 1..3, m \in 1..7, b \in 2..3}

InitDelay ==
  /\ delayConfig \in {p \in DelayConfigs : p.initialDelayMs <= p.maxDelayMs}
  /\ delaySeq = <<>>
  /\ ClassifyIdle
  /\ RetryIdle
  /\ LaterIdle

NextDelayStep ==
  /\ Len(delaySeq) < MaxDelaySteps
  /\ delaySeq' = Append(delaySeq, calculateDelay(Len(delaySeq) + 1, delayConfig))
  /\ UNCHANGED <<delayConfig, classifyVars, retryVars, laterVars>>

NextDelay == NextDelayStep

SpecDelay == InitDelay /\ [][NextDelay]_vars

(***************************************************************************)
(* withRetry                                                               *)
(***************************************************************************)
\* the configs withRetry is called with: the shipped ones, with and without
\* an onRetry callback, and a small policy that reaches its cap at once
RetryConfigs ==
  {DEFAULT_OCR_RETRY_CONFIG,
   WithOnRetry(DEFAULT_OCR_RETRY_CONFIG),
   WithOnRetry(DEFAULT_POLL_RETRY_CONFIG),
   WithOnRetry(RetryConfig(1, 3, 2, 10, FALSE))}

\* the errors a unit of work rejects with
RateLimitError == ErrObj(429, "", "Error", MsgBoom)
AuthError == ErrObj(401, "", "Error", MsgBoom)
BlankImageError == ErrObj(0, "", "Error", MsgInvalidImage)
PlainError == ErrObj(0, "", "Error", MsgBoom)
OddMessageError == ErrObj(0, "", "", Num(42))
WorkErrors == {RateLimitError, AuthError, BlankImageError, PlainError, OddMessageError}

InitRetry ==
  /\ RetryIdle
  /\ ClassifyIdle
  /\ DelayIdle
  /\ LaterIdle

\* while (true) { attempt++; try { const result = await fn(); ...
\* the loop head up to the suspension at await fn()
StartAttempt(c, att) ==
  /\ attempt' = IncrementAttempt(att, c)
  /\ invocations' = [invocations EXCEPT ![c] = @ + 1]
  /\ inFlight' = [inFlight EXCEPT ![c] = @ + 1]
  /\ pc' = [pc EXCEPT ![c] = "awaiting"]

\* withRetry(fn, cfg) is called: attempt = 0 and the first pass of the loop
Call(c, cfg) ==
  /\ pc[c] = "idle"
  /\ config' = [config EXCEPT ![c] = cfg]
  /\ StartAttempt(c, InitAttempt(attempt, c))
  /\ UNCHANGED <<failures, delays, retryCalls, sleeps, produced, settled, callbackThrew>>
  /\ UNCHANGED <<classifyVars, delayVars, laterVars>>

\* fn() resolves: return result
FnResolves(c, v) ==
  /\ pc[c] = "awaiting"
  /\ inFlight' = [inFlight EXCEPT ![c] = @ - 1]
  /\ produced' = [produced EXCEPT ![c] = v]
  /\ settled' = [settled EXCEPT ![c] = ResolvedWith(v)]
  /\ pc' = [pc EXCEPT ![c] = "resolved"]
  /\ UNCHANGED <<config, attempt, invocations, failures, delays, retryCalls, sleeps, callbackThrew>>
  /\ UNCHANGED <<classifyVars, delayVars, laterVars>>

\* the call ends with a rejection
Reject(c, e) ==
  /\ settled' = [settled EXCEPT ![c] = RejectedWith(e)]
  /\ pc' = [pc EXCEPT ![c] = "rejected"]

\* fn() rejects with e: the catch block up to its throw or to await sleep(delay).
\* cbThrows: whether this invocation of onRetry throws.
FnRejects(c, e, cbThrows) ==
  /\ pc[c] = "awaiting"
  /\ attempt[c] < MaxAttempts
  /\ inFlight' = [inFlight EXCEPT ![c] = @ - 1]
  /\ failures' = [failures EXCEPT ![c] = Append(@, e)]
  /\ LET cls == classifyError(e) IN
     IF cls.outcome = "throws" THEN
       /\ Reject(c, TypeErrorValue)
       /\ UNCHANGED <<delays, retryCalls, sleeps, callbackThrew>>
     ELSE IF ~cls.isRetryable THEN
       /\ Reject(c, PermanentFailure(e, cls))
       /\ UNCHANGED <<delays, retryCalls, sleeps, callbackThrew>>
     ELSE
       LET delay == calculateDelay(attempt[c], config[c]) IN
       /\ delays' = [delays EXCEPT ![c] = Append(@, delay)]
       /\ retryCalls' = IF config[c].onRetry
                          THEN [retryCalls EXCEPT ![c] = Append(@, RetryCallbackArgs(attempt[c], e, delay))]
                          ELSE retryCalls
       /\ IF config[c].onRetry /\ cbThrows THEN
            /\ Reject(c, CallbackError)
            /\ callbackThrew' = [callbackThrew EXCEPT ![c] = TRUE]
            /\ UNCHANGED sleeps
          ELSE
            /\ sleeps' = [sleeps EXCEPT ![c] = Append(@, delay)]
            /\ pc' = [pc EXCEPT ![c] = "sleeping"]
            /\ UNCHANGED <<settled, callbackThrew>>
  /\ UNCHANGED <<config, attempt, invocations, produced>>
  /\ UNCHANGED <<classifyVars, delayVars, laterVars>>

\* the timer of sleep(delay) fires: the next pass of the loop
SleepDone(c) ==
  /\ pc[c] = "sleeping"
  /\ StartAttempt(c, attempt)
  /\ UNCHANGED <<config, failures, delays, retryCalls, sleeps, produced, settled, callbackThrew>>
  /\ UNCHANGED <<classifyVars, delayVars, laterVars>>

NextRetry ==
  \/ \E c \in Calls, cfg \in RetryConfigs : Call(c, cfg)
  \/ \E c \in Calls, v \in Values : FnResolves(c, v)
  \/ \E c \in Calls, e \in WorkErrors, cbThrows \in BOOLEAN : FnRejects(c, e, cbThrows)
  \/ \E c \in Calls : SleepDone(c)

SpecRetry == InitRetry /\ [][NextRetry]_vars

(***************************************************************************)
(* Properties of withRetry (checked under SpecRetry)                       *)
(***************************************************************************)
Last(q) == q[Len(q)]

\* classifyError returns for e and marks it non-retryable
IsPermanent(e) ==
  classifyError(e).outcome = "returns" /\ ~classifyError(e).isRetryable

\* classifyError returns for e and marks it retryable
IsRetryable(e) ==
  classifyError(e).outcome = "returns" /\ classifyError(e).isRetryable

\* C1: when an attempt fails with an error the classifier marks non-retryable
\* (on attempt 1 or after earlier retryable failures), withRetry rejects with
\* that very error value, neither calls onRetry nor sleeps for that failure,
\* and never invokes the work again.
C1_PermanentErrorPropagatesUnchanged ==
  \A c \in Calls :
    (failures[c] # <<>> /\ IsPermanent(Last(failures[c]))) =>
      LET n == Len(failures[c]) IN
      /\ pc[c] = "rejected"
      /\ settled[c] = RejectedWith(Last(failures[c]))
      /\ Len(delays[c]) = n - 1
      /\ Len(sleeps[c]) = n - 1
      /\ Len(retryCalls[c]) = (IF config[c].onRetry THEN n - 1 ELSE 0)
      /\ invocations[c] = n
      /\ inFlight[c] = 0

\* a call rejected by an auth error that followed two retried failures
C1_Witness ==
  \E c \in Calls :
    /\ pc[c] = "rejected"
    /\ Len(failures[c]) = 3
    /\ Last(failures[c]) = AuthError
    /\ Len(sleeps[c]) = 2

\* the delays grow strictly until one of them is the cap
StrictlyIncreasingUntilCap(ds, cap) ==
  \A k \in 1..(Len(ds) - 1) : ds[k] < cap => ds[k] < ds[k + 1]

\* C2: a call whose work failed n times with retryable errors and then
\* succeeded resolves with the value of that success, invoked the work n+1
\* times one after another, invoked onRetry n times, the k-th time with
\* (k, the k-th error, calculateDelay(k, config)), and slept exactly that
\* delay before attempt k+1; the delays grow strictly up to the cap.
C2_RetriesThenSucceeds ==
  \A c \in Calls :
    /\ inFlight[c] <= 1
    /\ pc[c] = "awaiting" => invocations[c] = Len(sleeps[c]) + 1
    /\ pc[c] = "sleeping" => (inFlight[c] = 0 /\ invocations[c] = Len(sleeps[c]))
    /\ pc[c] = "resolved" =>
         LET n == Len(failures[c]) IN
         /\ settled[c] = ResolvedWith(produced[c])
         /\ invocations[c] = n + 1
         /\ Len(retryCalls[c]) = (IF config[c].onRetry THEN n ELSE 0)
         /\ \A k \in 1..Len(retryCalls[c]) :
              retryCalls[c][k] = [attempt |-> k, error |-> failures[c][k],
                                  nextDelay |-> calculateDelay(k, config[c])]
         /\ Len(sleeps[c]) = n
         /\ \A k \in 1..n : sleeps[c][k] = calculateDelay(k, config[c])
         /\ StrictlyIncreasingUntilCap(sleeps[c], config[c].maxDelayMs)

\* two rate-limit failures, then success, with an onRetry callback
C2_Witness ==
  \E c \in Calls :
    /\ pc[c] = "resolved"
    /\ failures[c] = <<RateLimitError, RateLimitError>>
    /\ config[c].onRetry
    /\ Len(retryCalls[c]) = 2
    /\ retryCalls[c][1].nextDelay < retryCalls[c][2].nextDelay

\* C3: withRetry has no bound on the attempt count; a call whose onRetry
\* never threw ends only by a successful attempt or by an error classified
\* non-retryable, and after a retryable failure it sleeps and goes on.
C3_OnlyExitsAreSuccessOrPermanentError ==
  \A c \in Calls :
    ~callbackThrew[c] =>
      /\ pc[c] = "resolved" => invocations[c] = Len(failures[c]) + 1
      /\ pc[c] = "rejected" => IsPermanent(Last(failures[c]))
      /\ (pc[c] = "sleeping") => IsRetryable(Last(failures[c]))

\* C4: an exception thrown by the onRetry callback does not abort the retry
\* loop: the call still sleeps the computed delay and is not rejected with
\* the callback's exception.
C4_CallbackFailureDoesNotAbort ==
  \A c \in Calls :
    callbackThrew[c] =>
      /\ settled[c] # RejectedWith(CallbackError)
      /\ Len(sleeps[c]) = Len(delays[c])

\* C10: the attempt counter is private to one call: with calls interleaved
\* in any order, a call's counter counts its own attempts only, the delay
\* it computes after its own k-th failure is calculateDelay(k, its config),
\* and a new call starts at attempt 1.
C10_AttemptCounterIsPerCall ==
  \A c \in Calls :
    pc[c] # "idle" =>
      /\ attempt[c] = invocations[c]
      /\ (pc[c] = "awaiting" /\ failures[c] = <<>>) => attempt[c] = 1
      /\ Len(delays[c]) <= Len(failures[c])
      /\ \A k \in 1..Len(delays[c]) : delays[c][k] = calculateDelay(k, config[c])

\* two calls with different configs, both in a backoff sleep, after a
\* different number of failures each
C10_Witness ==
  \E c, d \in Calls :
    /\ c # d
    /\ pc[c] = "sleeping" /\ pc[d] = "sleeping"
    /\ config[c] # config[d]
    /\ Len(delays[c]) = 3 /\ Len(delays[d]) = 1

(***************************************************************************)
(* Properties of classifyError (checked under SpecClassify)                *)
(***************************************************************************)
ErrorTypes ==
  {"rate_limit", "server_error", "network_error", "timeout", "auth_error",
   "client_error", "parsing_error", "unknown"}

\* C5: a returned classification is non-retryable exactly when its type is
\* auth_error or client_error; the six other types are retryable.
C5_RetryableIffNotAuthOrClient ==
  classification.outcome = "returns" =>
    /\ classification.errorType \in ErrorTypes
    /\ (~classification.isRetryable) <=>
          (classification.errorType \in {"auth_error", "client_error"})

\* a status-less invalid-image error classified client_error
C5_Witness ==
  /\ classification.outcome = "returns"
  /\ thrown.status = 0
  /\ classification.errorType = "client_error"
  /\ ~classification.isRetryable

\* C6: classifyError is total: it returns a classification for every thrown
\* value and never throws itself.
C6_ClassifierNeverThrows ==
  classification.outcome # "throws"

\* the classification an HTTP status in 400..599 decides
StatusErrorType(status) ==
  IF status = 429 THEN "rate_limit"
  ELSE IF status >= 500 THEN "server_error"
  ELSE IF status \in {401, 403} THEN "auth_error"
  ELSE "client_error"

\* C7: an HTTP status in 400..599 alone decides the classification, whatever
\* the code, name and message are.
C7_StatusDecides ==
  (classification.outcome # "pending" /\ thrown.status \in 400..599) =>
    /\ classification.outcome = "returns"
    /\ classification.errorType = StatusErrorType(thrown.status)
    /\ classification.isRetryable = (thrown.status = 429 \/ thrown.status >= 500)
    /\ classification.statusCode = thrown.status

\* a 404 that also carries a network code, a timeout name and a parse message
C7_Witness ==
  /\ thrown = ErrObj(404, "ETIMEDOUT", "TimeoutError", MsgParseTimeout)
  /\ classification.outcome = "returns"
  /\ classification.errorType = "client_error"

\* what the ordered rules for a status-less error give, read off the
\* message text (a message that is no text indicates nothing)
HasText(e, pat, foldCase) ==
  /\ e.message.t = "string"
  /\ Includes(IF foldCase THEN ToLowerCase(e.message.s) ELSE e.message.s, pat)

StatuslessErrorType(e) ==
  IF e.code \in retryableCodes THEN "network_error"
  ELSE IF HasText(e, PatTimeout, TRUE) \/ e.name = "TimeoutError" THEN "timeout"
  ELSE IF HasText(e, PatJSON, FALSE) \/ HasText(e, PatParse, FALSE)
          \/ HasText(e, PatNoJSONFound, FALSE) THEN "parsing_error"
  ELSE IF HasText(e, PatInvalidOrBlank, FALSE) \/ HasText(e, PatBlank, FALSE)
          \/ HasText(e, PatWhite, FALSE) THEN "client_error"
  ELSE "unknown"

\* C8: for an error with no HTTP status the rules apply in the order
\* network code, timeout, parsing, invalid image, unknown; first match wins.
C8_StatuslessRuleOrder ==
  (classification.outcome # "pending" /\ thrown.status = 0) =>
    /\ classification.outcome = "returns"
    /\ classification.errorType = StatuslessErrorType(thrown)
    /\ classification.isRetryable = (StatuslessErrorType(thrown) # "client_error")

(***************************************************************************)
(* Properties of calculateDelay (checked under SpecDelay)                  *)
(***************************************************************************)
\* 1s, 2s, 4s, 8s, 16s, 30s, 30s, ...
OcrDelay(n) == IF n <= 5 THEN <<1000, 2000, 4000, 8000, 16000>>[n] ELSE 30000
\* 2s, 4s, 8s, 16s, 32s, 60s, 60s, ...
PollDelay(n) == IF n <= 5 THEN <<2000, 4000, 8000, 16000, 32000>>[n] ELSE 60000

\* C9: for a config with initialDelayMs <= maxDelayMs and a multiplier > 1
\* the delays start at initialDelayMs, each is the previous one times the
\* multiplier capped at maxDelayMs (so the n-th is
\* min(initial * multiplier^(n-1), max)), none exceeds maxDelayMs, they never
\* decrease and stay at maxDelayMs once they reach it; the shipped configs
\* give 1s,2s,4s,8s,16s,30s,... and 2s,4s,8s,16s,32s,60s,...
C9_DelayIsCappedExponential ==
  LET p == delayConfig IN
  /\ \A n \in 1..Len(delaySeq) :
       /\ delaySeq[n] <= p.maxDelayMs
       /\ n = 1 => delaySeq[n] = p.initialDelayMs
       /\ n > 1 => delaySeq[n] = Min(delaySeq[n - 1] * p.backoffMultiplier, p.maxDelayMs)
       /\ n > 1 => delaySeq[n - 1] <= delaySeq[n]
       /\ (n > 1 /\ delaySeq[n - 1] = p.maxDelayMs) => delaySeq[n] = p.maxDelayMs
       /\ p = DEFAULT_OCR_RETRY_CONFIG => delaySeq[n] = OcrDelay(n)
       /\ p = DEFAULT_POLL_RETRY_CONFIG => delaySeq[n] = PollDelay(n)

\* the OCR config two steps past the attempt whose delay reached the cap
C9_Witness ==
  /\ delayConfig = DEFAULT_OCR_RETRY_CONFIG
  /\ Len(delaySeq) = 8
  /\ delaySeq[6] = 30000 /\ delaySeq[8] = 30000


(***************************************************************************)
(* The LLM adapters: runPollSimulation (text poll) and                     *)
(* extractDataFromScreenshot.  Both hand withRetry a unit of work that     *)
(* only sends the request; the response is validated after withRetry has   *)
(* resolved, and a try/catch around everything turns any error into a new  *)
(* Error with a user-facing message.                                       *)
(***************************************************************************)
TextUnexpectedType == <<"U", "n", "e", "x", "p", "e", "c", "t", "e", "d", " ", "r", "e", "s", "p", "o", "n", "s", "e", " ", "t", "y", "p", "e", " ", "f", "r", "o", "m", " ", "C", "l", "a", "u", "d", "e">>
TextNoJsonInResponse == <<"N", "o", " ", "J", "S", "O", "N", " ", "f", "o", "u", "n", "d", " ", "i", "n", " ", "C", "l", "a", "u", "d", "e", " ", "r", "e", "s", "p", "o", "n", "s", "e">>
TextFailedToParseJson == <<"F", "a", "i", "l", "e", "d", " ", "t", "o", " ", "p", "a", "r", "s", "e", " ", "J", "S", "O", "N", " ", "r", "e", "s", "p", "o", "n", "s", "e", " ", "f", "r", "o", "m", " ", "C", "l", "a", "u", "d", "e">>
TextInvalidOrBlankImage == <<"I", "n", "v", "a", "l", "i", "d", " ", "o", "r", " ", "b", "l", "a", "n", "k", " ", "i", "m", "a", "g", "e", ".", " ", "P", "l", "e", "a", "s", "e", " ", "u", "p", "l", "o", "a", "d", " ", "a", " ", "c", "l", "e", "a", "r", " ", "s", "c", "r", "e", "e", "n", "s", "h", "o", "t", " ", "o", "f", " ", "a", "n", " ", "A", "m", "a", "z", "o", "n", " ", "p", "r", "o", "d", "u", "c", "t", " ", "p", "a", "g", "e", ".">>
TextSyntaxError == <<"U", "n", "e", "x", "p", "e", "c", "t", "e", "d", " ", "t", "o", "k", "e", "n", " ", "o", " ", "i", "n", " ", "J", "S", "O", "N", " ", "a", "t", " ", "p", "o", "s", "i", "t", "i", "o", "n", " ", "1">>
TextNoCredits == <<"N", "o", " ", "C", "l", "a", "u", "d", "e", " ", "c", "r", "e", "d", "i", "t", "s", " ", "a", "v", "a", "i", "l", "a", "b", "l", "e", ".", " ", "P", "l", "e", "a", "s", "e", " ", "c", "o", "n", "t", "a", "c", "t", " ", "t", "h", "e", " ", "a", "d", "m", "i", "n", "i", "s", "t", "r", "a", "t", "o", "r", " ", "t", "o", " ", "a", "d", "d", " ", "c", "r", "e", "d", "i", "t", "s", " ", "t", "o", " ", "y", "o", "u", "r", " ", "A", "n", "t", "h", "r", "o", "p", "i", "c", " ", "a", "c", "c", "o", "u", "n", "t", ".">>
TextCreditLow == <<"Y", "o", "u", "r", " ", "c", "r", "e", "d", "i", "t", " ", "b", "a", "l", "a", "n", "c", "e", " ", "i", "s", " ", "t", "o", "o", " ", "l", "o", "w", " ", "t", "o", " ", "a", "c", "c", "e", "s", "s", " ", "t", "h", "e", " ", "A", "n", "t", "h", "r", "o", "p", "i", "c", " ", "A", "P", "I", ".", " ", "P", "l", "e", "a", "s", "e", " ", "g", "o", " ", "t", "o", " ", "P", "l", "a", "n", "s", " ", "&", " ", "B", "i", "l", "l", "i", "n", "g", " ", "t", "o", " ", "u", "p", "g", "r", "a", "d", "e", " ", "o", "r", " ", "p", "u", "r", "c", "h", "a", "s", "e", " ", "c", "r", "e", "d", "i", "t", "s", ".">>
PatCreditTooLow == <<"c", "r", "e", "d", "i", "t", " ", "b", "a", "l", "a", "n", "c", "e", " ", "i", "s", " ", "t", "o", "o", " ", "l", "o", "w">>
PatCreditBalance == <<"c", "r", "e", "d", "i", "t", " ", "b", "a", "l", "a", "n", "c", "e">>
PatUpgradeOrPurchase == <<"u", "p", "g", "r", "a", "d", "e", " ", "o", "r", " ", "p", "u", "r", "c", "h", "a", "s", "e", " ", "c", "r", "e", "d", "i", "t", "s">>
PatCannotExtract == <<"c", "a", "n", "n", "o", "t", " ", "e", "x", "t", "r", "a", "c", "t">>
PatNoAmazonProduct == <<"n", "o", " ", "a", "m", "a", "z", "o", "n", " ", "p", "r", "o", "d", "u", "c", "t">>
FriendlyRateLimit == <<"A", "P", "I", " ", "r", "a", "t", "e", " ", "l", "i", "m", "i", "t", " ", "r", "e", "a", "c", "h", "e", "d", ".", " ", "T", "h", "e", " ", "s", "y", "s", "t", "e", "m", " ", "w", "i", "l", "l", " ", "a", "u", "t", "o", "m", "a", "t", "i", "c", "a", "l", "l", "y", " ", "r", "e", "t", "r", "y", ".", " ", "P", "l", "e", "a", "s", "e", " ", "w", "a", "i", "t", ".", ".", ".">>
FriendlyServerError == <<"A", "n", "t", "h", "r", "o", "p", "i", "c", " ", "A", "P", "I", " ", "i", "s", " ", "e", "x", "p", "e", "r", "i", "e", "n", "c", "i", "n", "g", " ", "i", "s", "s", "u", "e", "s", ".", " ", "T", "h", "e", " ", "s", "y", "s", "t", "e", "m", " ", "w", "i", "l", "l", " ", "a", "u", "t", "o", "m", "a", "t", "i", "c", "a", "l", "l", "y", " ", "r", "e", "t", "r", "y", ".", " ", "P", "l", "e", "a", "s", "e", " ", "w", "a", "i", "t", ".", ".", ".">>
FriendlyNetworkError == <<"N", "e", "t", "w", "o", "r", "k", " ", "c", "o", "n", "n", "e", "c", "t", "i", "o", "n", " ", "i", "s", "s", "u", "e", " ", "d", "e", "t", "e", "c", "t", "e", "d", ".", " ", "T", "h", "e", " ", "s", "y", "s", "t", "e", "m", " ", "w", "i", "l", "l", " ", "a", "u", "t", "o", "m", "a", "t", "i", "c", "a", "l", "l", "y", " ", "r", "e", "t", "r", "y", ".", " ", "P", "l", "e", "a", "s", "e", " ", "c", "h", "e", "c", "k", " ", "y", "o", "u", "r", " ", "i", "n", "t", "e", "r", "n", "e", "t", " ", "c", "o", "n", "n", "e", "c", "t", "i", "o", "n", ".">>
FriendlyTimeout == <<"R", "e", "q", "u", "e", "s", "t", " ", "t", "i", "m", "e", "d", " ", "o", "u", "t", ".", " ", "T", "h", "e", " ", "s", "y", "s", "t", "e", "m", " ", "w", "i", "l", "l", " ", "a", "u", "t", "o", "m", "a", "t", "i", "c", "a", "l", "l", "y", " ", "r", "e", "t", "r", "y", ".", " ", "P", "l", "e", "a", "s", "e", " ", "w", "a", "i", "t", ".", ".", ".">>
FriendlyAuthError == <<"A", "P", "I", " ", "a", "u", "t", "h", "e", "n", "t", "i", "c", "a", "t", "i", "o", "n", " ", "f", "a", "i", "l", "e", "d", ".", " ", "P", "l", "e", "a", "s", "e", " ", "c", "h", "e", "c", "k", " ", "y", "o", "u", "r", " ", "A", "P", "I", " ", "k", "e", "y", " ", "i", "n", " ", ".", "e", "n", "v", ".", "l", "o", "c", "a", "l", " ", "a", "n", "d", " ", "r", "e", "s", "t", "a", "r", "t", " ", "t", "h", "e", " ", "s", "e", "r", "v", "e", "r", ".">>
FriendlyClientError == <<"I", "n", "v", "a", "l", "i", "d", " ", "i", "m", "a", "g", "e", " ", "p", "r", "o", "v", "i", "d", "e", "d", ".", " ", "P", "l", "e", "a", "s", "e", " ", "u", "p", "l", "o", "a", "d", " ", "a", " ", "c", "l", "e", "a", "r", " ", "s", "c", "r", "e", "e", "n", "s", "h", "o", "t", " ", "o", "f", " ", "a", "n", " ", "A", "m", "a", "z", "o", "n", " ", "p", "r", "o", "d", "u", "c", "t", " ", "p", "a", "g", "e", ".">>
FriendlyParsingError == <<"F", "a", "i", "l", "e", "d", " ", "t", "o", " ", "p", "a", "r", "s", "e", " ", "A", "P", "I", " ", "r", "e", "s", "p", "o", "n", "s", "e", ".", " ", "T", "h", "e", " ", "s", "y", "s", "t", "e", "m", " ", "w", "i", "l", "l", " ", "a", "u", "t", "o", "m", "a", "t", "i", "c", "a", "l", "l", "y", " ", "r", "e", "t", "r", "y", ".">>
FriendlyDefault == <<"A", "n", " ", "e", "r", "r", "o", "r", " ", "o", "c", "c", "u", "r", "r", "e", "d", ".", " ", "T", "h", "e", " ", "s", "y", "s", "t", "e", "m", " ", "w", "i", "l", "l", " ", "a", "u", "t", "o", "m", "a", "t", "i", "c", "a", "l", "l", "y", " ", "r", "e", "t", "r", "y", ".", " ", "P", "l", "e", "a", "s", "e", " ", "w", "a", "i", "t", ".", ".", ".">>
ReplyTextGood == <<"H", "e", "r", "e", " ", "i", "t", " ", "i", "s", ":", " ", "{", "r", "}">>
ReplyTextBadJson == <<"{", "o", "o", "p", "s", "}">>
ReplyTextTruncated == <<"{", "r">>
ReplyTextProse == <<"S", "o", "r", "r", "y", ",", " ", "I", " ", "c", "a", "n", " ", "n", "o", "t", " ", "d", "o", " ", "t", "h", "a", "t">>
ReplyTextBlank == <<"T", "h", "e", " ", "i", "m", "a", "g", "e", " ", "i", "s", " ", "B", "l", "a", "n", "k">>

\* new Error(message)
NewError(message) == ErrObj(0, "", "Error", Str(message))

\* what withRetry's catch block decides for error e of attempt att
\* (the adapters' onRetry callbacks are empty functions)
RetryDecision(e, att, cfg) ==
  LET cls == classifyError(e) IN
  IF cls.outcome = "throws" THEN [next |-> "reject", error |-> TypeErrorValue, delay |-> 0]
  ELSE IF ~cls.isRetryable THEN [next |-> "reject", error |-> PermanentFailure(e, cls), delay |-> 0]
  ELSE [next |-> "sleep", error |-> e, delay |-> calculateDelay(att, cfg)]

\* getUserFriendlyErrorMessage: the text, or the TypeError of classifyError
getUserFriendlyErrorMessage(error) ==
  LET cls == classifyError(error) IN
  IF cls.outcome = "throws" THEN TextNotAFunction
  ELSE IF cls.errorType = "rate_limit" THEN FriendlyRateLimit
  ELSE IF cls.errorType = "server_error" THEN FriendlyServerError
  ELSE IF cls.errorType = "network_error" THEN FriendlyNetworkError
  ELSE IF cls.errorType = "timeout" THEN FriendlyTimeout
  ELSE IF cls.errorType = "auth_error" THEN FriendlyAuthError
  ELSE IF cls.errorType = "client_error" THEN FriendlyClientError
  ELSE IF cls.errorType = "parsing_error" THEN FriendlyParsingError
  ELSE FriendlyDefault

\* replies of the LLM service
ErrorReply(e) == [kind |-> "error", error |-> e, contentType |-> "", text |-> <<>>, parses |-> FALSE]
\* parses: whether JSON.parse accepts the matched {...} part of the text
ResponseReply(contentType, text, parses) ==
  [kind |-> "response", error |-> NonObject("undefined"), contentType |-> contentType,
   text |-> text, parses |-> parses]

CreditError == ErrObj(400, "", "Error", Str(TextCreditLow))
CreditErrorNoStatus == ErrObj(0, "", "Error", Str(TextCreditLow))
OverloadedError == ErrObj(503, "", "Error", MsgBoom)
ConnectionResetError == ErrObj(0, "ECONNRESET", "Error", MsgBoom)
LlmErrors ==
  {RateLimitError, OverloadedError, ConnectionResetError, AuthError, CreditError, CreditErrorNoStatus}

LlmResponses ==
  {ResponseReply("tool_use", <<>>, FALSE),
   ResponseReply("text", ReplyTextProse, FALSE),
   ResponseReply("text", ReplyTextBlank, FALSE),
   ResponseReply("text", ReplyTextTruncated, FALSE),
   ResponseReply("text", ReplyTextBadJson, FALSE),
   ResponseReply("text", ReplyTextGood, TRUE)}

\* text.match(/\{[\s\S]*\}/): an opening brace with a closing brace after it
HasJsonObject(text) ==
  \E i, j \in 1..Len(text) : i < j /\ text[i] = "{" /\ text[j] = "}"

\* the blank-image test of extractDataFromScreenshot on the response text
SaysImageUnusable(text) ==
  \/ Includes(ToLowerCase(text), PatBlank)
  \/ Includes(ToLowerCase(text), PatWhite)
  \/ Includes(ToLowerCase(text), PatCannotExtract)
  \/ Includes(ToLowerCase(text), PatNoAmazonProduct)

NoValidationError == NonObject("undefined")

\* the error the code after withRetry throws for response r, if any
PollValidationError(r) ==
  IF r.contentType # "text" THEN NewError(TextUnexpectedType)
  ELSE IF ~HasJsonObject(r.text) THEN NewError(TextNoJsonInResponse)
  ELSE IF ~r.parses THEN NewError(TextFailedToParseJson)
  ELSE NoValidationError

OcrValidationError(r) ==
  IF r.contentType # "text" THEN NewError(TextUnexpectedType)
  ELSE IF ~HasJsonObject(r.text) THEN
    IF SaysImageUnusable(r.text) THEN NewError(TextInvalidOrBlankImage)
    ELSE NewError(TextNoJsonInResponse)
  ELSE IF ~r.parses THEN ErrObj(0, "", "SyntaxError", Str(TextSyntaxError))
  ELSE NoValidationError

ValidationError(adapter, r) ==
  IF adapter = "poll" THEN PollValidationError(r) ELSE OcrValidationError(r)

\* error?.message?.includes(...) of the credit-balance test
IsCreditMessage(error) ==
  \/ MessageIncludes(error, PatCreditTooLow)
  \/ MessageIncludes(error, PatCreditBalance)
  \/ MessageIncludes(error, PatUpgradeOrPurchase)

\* the adapter's outer catch block: the message of the Error it throws
PollCatch(error) ==
  IF IsCreditMessage(error) THEN TextNoCredits ELSE getUserFriendlyErrorMessage(error)

OcrCatch(error) == getUserFriendlyErrorMessage(error)

OuterCatch(adapter, error) ==
  IF adapter = "poll" THEN PollCatch(error) ELSE OcrCatch(error)

AdapterConfig(adapter) ==
  IF adapter = "poll" THEN WithOnRetry(DEFAULT_POLL_RETRY_CONFIG)
  ELSE WithOnRetry(DEFAULT_OCR_RETRY_CONFIG)

AdapterRejects(message) == [how |-> "rejected", message |-> message]
AdapterResolves == [how |-> "resolved", message |-> <<>>]

\* the adapter is called: withRetry starts attempt 1 and sends the request
LlmCall(adapter) ==
  /\ llmPc = "idle"
  /\ llmAdapter' = adapter
  /\ llmAttempt' = 1
  /\ llmRequests' = llmRequests + 1
  /\ llmPc' = "awaiting"
  /\ UNCHANGED <<llmReply, llmResult>>

\* anthropic.messages.create rejects with e
LlmFails(e) ==
  /\ llmPc = "awaiting"
  /\ llmAttempt < MaxAttempts
  /\ llmReply' = ErrorReply(e)
  /\ LET d == RetryDecision(e, llmAttempt, AdapterConfig(llmAdapter)) IN
     IF d.next = "sleep" THEN
       /\ llmPc' = "sleeping"
       /\ UNCHANGED llmResult
     ELSE
       /\ llmPc' = "done"
       /\ llmResult' = AdapterRejects(OuterCatch(llmAdapter, d.error))
  /\ UNCHANGED <<llmAdapter, llmAttempt, llmRequests>>

\* the backoff sleep ends: next attempt, next request
LlmSleepDone ==
  /\ llmPc = "sleeping"
  /\ llmAttempt' = llmAttempt + 1
  /\ llmRequests' = llmRequests + 1
  /\ llmPc' = "awaiting"
  /\ UNCHANGED <<llmAdapter, llmReply, llmResult>>

\* anthropic.messages.create resolves with r: withRetry resolves, then the
\* adapter validates the response
LlmResponds(r) ==
  /\ llmPc = "awaiting"
  /\ llmReply' = r
  /\ llmPc' = "done"
  /\ LET v == ValidationError(llmAdapter, r) IN
     llmResult' = IF v = NoValidationError THEN AdapterResolves
                  ELSE AdapterRejects(OuterCatch(llmAdapter, v))
  /\ UNCHANGED <<llmAdapter, llmAttempt, llmRequests>>

\* every subsystem but the LLM adapter is idle
InitLlm ==
  /\ LlmIdle
  /\ ClassifyIdle
  /\ DelayIdle
  /\ RetryIdle
  /\ LaterIdle

NextLlm ==
  \/ \E a \in {"poll", "ocr"} : LlmCall(a) /\ UNCHANGED notLlmVars
  \/ \E e \in LlmErrors : LlmFails(e) /\ UNCHANGED notLlmVars
  \/ LlmSleepDone /\ UNCHANGED notLlmVars
  \/ \E r \in LlmResponses : LlmResponds(r) /\ UNCHANGED notLlmVars

SpecLlm == InitLlm /\ [][NextLlm]_vars

\* the response fails the adapter's shape validation
Malformed(adapter, r) ==
  r.kind = "response" /\ ValidationError(adapter, r) # NoValidationError

\* C11: in the LLM adapters a response that fails shape validation is a
\* retryable failure of the retried unit of work: the call backs off and the
\* request is sent again, the operation does not fail on it.
C11_MalformedResponseIsRetried ==
  Malformed(llmAdapter, llmReply) =>
    /\ llmPc \in {"sleeping", "awaiting"}
    /\ llmResult.how = "pending"

\* C12: when the service's failure text reports an exhausted credit balance
\* the poll fails at once with the 'No Claude credits available' error and
\* sends no further request, whatever the classifier says about the error.
C12_CreditExhaustionFailsAtOnce ==
  (llmAdapter = "poll" /\ llmReply.kind = "error" /\ IsCreditMessage(llmReply.error)) =>
    /\ llmPc = "done"
    /\ llmResult = AdapterRejects(TextNoCredits)


(***************************************************************************)
(* ScrapeOpsClient.fetchProduct                                            *)
(***************************************************************************)
TextScrapeRequestFailed == <<"S", "c", "r", "a", "p", "e", "O", "p", "s", " ", "A", "P", "I", " ", "r", "e", "q", "u", "e", "s", "t", " ", "f", "a", "i", "l", "e", "d", ":", " ">>
TextApiParsingFailed == <<"A", "P", "I", " ", "p", "a", "r", "s", "i", "n", "g", " ", "f", "a", "i", "l", "e", "d", " ", "f", "o", "r", " ", "A", "S", "I", "N", " ">>
TextColonSpace == <<":", " ">>
TextInvalidAsinFormat == <<"I", "n", "v", "a", "l", "i", "d", " ", "A", "S", "I", "N", " ", "f", "o", "r", "m", "a", "t", ":", " ">>
StatusParseSuccessful == <<"p", "a", "r", "s", "e", "_", "s", "u", "c", "c", "e", "s", "s", "f", "u", "l">>
StatusParseFailed == <<"p", "a", "r", "s", "e", "_", "f", "a", "i", "l", "e", "d">>
StatusBlocked == <<"b", "l", "o", "c", "k", "e", "d">>
StatusBlankPage == <<"b", "l", "a", "n", "k", "_", "p", "a", "g", "e">>
AsinValid == <<"B", "0", "8", "W", "M", "3", "L", "M", "J", "F">>
AsinValidDigits == <<"1", "2", "3", "4", "5", "6", "7", "8", "9", "0">>
AsinLowerCase == <<"b", "0", "8", "w", "m", "3", "l", "m", "j", "f">>
AsinShort == <<"B", "0", "8", "W", "M", "3", "L", "M", "J">>
AsinLong == <<"B", "0", "8", "W", "M", "3", "L", "M", "J", "F", "X">>
AsinHyphen == <<"B", "0", "8", "-", "M", "3", "L", "M", "J", "F">>
AsinEmpty == <<>>

Digits == <<"0", "1", "2", "3", "4", "5", "6", "7", "8", "9">>

RECURSIVE DecimalText(_)
\* the decimal text of a natural number, as a template literal prints it
DecimalText(n) ==
  IF n < 10 THEN <<Digits[n + 1]>>
  ELSE DecimalText(n \div 10) \o <<Digits[(n % 10) + 1]>>

CharsOf(q) == {q[i] : i \in 1..Len(q)}

\* /^[A-Z0-9]{10}$/.test(asin)
validateASIN(asin) ==
  /\ Len(asin) = 10
  /\ \A i \in 1..Len(asin) : asin[i] \in CharsOf(UpperChars) \cup CharsOf(Digits)

Asins == {AsinValid, AsinValidDigits, AsinLowerCase, AsinShort, AsinLong, AsinHyphen, AsinEmpty}

\* replies of the scraping service: the HTTP status and, for a 2xx reply,
\* the status field of the JSON body
ScrapeReply(http, status) == [http |-> http, status |-> status]
ScrapeReplies ==
  {ScrapeReply(h, <<>>) : h \in {401, 403, 404, 429, 500}}
    \cup {ScrapeReply(200, st) : st \in {StatusParseSuccessful, StatusParseFailed, StatusBlocked, StatusBlankPage}}

\* response.ok
ResponseOk(reply) == reply.http >= 200 /\ reply.http <= 299

\* a 2xx reply is returned whatever its status field says
ResponseAcceptedAnyStatus(reply) == ResponseOk(reply)

\* the unit of work returns responseData
ResponseAccepted(reply) ==
  ResponseOk(reply) /\ reply.status = StatusParseSuccessful

\* the error the unit of work throws for a reply it does not return
ScrapeWorkError(asin, reply) ==
  IF ~ResponseOk(reply)
    THEN NewError(TextScrapeRequestFailed \o DecimalText(reply.http))
    ELSE NewError(TextApiParsingFailed \o asin \o TextColonSpace \o reply.status)

ScrapeResolves(reply) == [how |-> "resolved", parsedFrom |-> reply, error |-> NonObject("undefined")]
ScrapeRejects(e) == [how |-> "rejected", parsedFrom |-> NoScrapeReply, error |-> e]

\* fetchProduct(asin) is called
ScrapeCall(asin) ==
  /\ scPc = "idle"
  /\ scAsin' = asin
  /\ IF ~validateASIN(asin) THEN
       /\ scPc' = "done"
       /\ scResult' = ScrapeRejects(NewError(TextInvalidAsinFormat \o asin))
       /\ UNCHANGED <<scAttempt, scRequests>>
     ELSE
       /\ scPc' = "awaiting"
       /\ scAttempt' = 1
       /\ scRequests' = scRequests + 1
       /\ UNCHANGED scResult
  /\ UNCHANGED <<scLog, scFailed>>

\* the service answers the request in flight
ScrapeAnswer(reply) ==
  /\ scPc = "awaiting"
  /\ scLog' = Append(scLog, reply)
  /\ IF ResponseAccepted(reply) THEN
       /\ scPc' = "done"
       /\ scResult' = ScrapeResolves(reply)
       /\ UNCHANGED scFailed
     ELSE
       /\ scAttempt < MaxAttempts
       /\ scFailed' = scFailed + 1
       /\ LET d == RetryDecision(ScrapeWorkError(scAsin, reply), scAttempt,
                                 WithOnRetry(DEFAULT_OCR_RETRY_CONFIG)) IN
          IF d.next = "sleep" THEN
            /\ scPc' = "sleeping"
            /\ UNCHANGED scResult
          ELSE
            /\ scPc' = "done"
            /\ scResult' = ScrapeRejects(d.error)
  /\ UNCHANGED <<scAsin, scAttempt, scRequests>>

\* the backoff sleep ends: next attempt, next request
ScrapeSleepDone ==
  /\ scPc = "sleeping"
  /\ scAttempt' = scAttempt + 1
  /\ scRequests' = scRequests + 1
  /\ scPc' = "awaiting"
  /\ UNCHANGED <<scAsin, scLog, scFailed, scResult>>

\* every subsystem but the scraper client is idle
InitScrape ==
  /\ ClassifyIdle
  /\ DelayIdle
  /\ RetryIdle
  /\ LaterIdle

NextScrape ==
  \/ \E asin \in Asins : ScrapeCall(asin) /\ UNCHANGED notScrapeVars
  \/ \E reply \in ScrapeReplies : ScrapeAnswer(reply) /\ UNCHANGED notScrapeVars
  \/ ScrapeSleepDone /\ UNCHANGED notScrapeVars

SpecScrape == InitScrape /\ [][NextScrape]_vars

\* C13: when the scraping service answers with 401, 403 or another 4xx
\* status except 429, the failure is non-retryable: fetchProduct rejects
\* after that attempt and the request is not sent again.
C13_ScrapeClientErrorNotRetried ==
  (scLog # <<>> /\ Last(scLog).http \in 400..499 /\ Last(scLog).http # 429) =>
    /\ scPc = "done"
    /\ scResult.how = "rejected"
    /\ scRequests = Len(scLog)

UpperAlnum ==
  {"A", "B", "C", "D", "E", "F", "G", "H", "I", "J", "K", "L", "M", "N", "O", "P", "Q",
   "R", "S", "T", "U", "V", "W", "X", "Y", "Z", "0", "1", "2", "3", "4", "5", "6",
   "7", "8", "9"}

\* C14: fetchProduct resolves only with the data of a reply whose status
\* field was 'parse_successful' on the attempt that produced it; a reply
\* with any other status is never returned and counts as a failed attempt;
\* an ASIN that is not 10 upper-case alphanumerics is rejected before any
\* request is sent.
C14_OnlyParseSuccessfulIsTrusted ==
  /\ scResult.how = "resolved" =>
       /\ scLog # <<>>
       /\ scResult.parsedFrom = Last(scLog)
       /\ Last(scLog).status = StatusParseSuccessful
       /\ Last(scLog).http = 200
  /\ \A k \in 1..Len(scLog) :
       scLog[k].status # StatusParseSuccessful =>
         /\ scFailed >= k
         /\ (k = Len(scLog) => scResult.how # "resolved")
  /\ scFailed = Cardinality({k \in 1..Len(scLog) : scLog[k] # ScrapeReply(200, StatusParseSuccessful)})
  /\ (scPc # "idle" /\ ~(Len(scAsin) = 10 /\ \A i \in 1..Len(scAsin) : scAsin[i] \in UpperAlnum)) =>
       /\ scRequests = 0
       /\ scLog = <<>>
       /\ scResult.how = "rejected"

\* resolved from a parse_successful reply after a 200 reply with another
\* status had been answered by a retry
C14_Witness ==
  /\ scResult.how = "resolved"
  /\ Len(scLog) = 2
  /\ scLog[1] = ScrapeReply(200, StatusBlocked)
  /\ scLog[2].status = StatusParseSuccessful


(***************************************************************************)
(* AmazonProductFetcher.fetchBulkProducts                                  *)
(***************************************************************************)
\* the longest asins argument
MaxAsins == 3

TextFailedToFetchAsin == <<"F", "a", "i", "l", "e", "d", " ", "t", "o", " ", "f", "e", "t", "c", "h", " ", "A", "S", "I", "N", " ">>
TextUnknownError == <<"U", "n", "k", "n", "o", "w", "n", " ", "e", "r", "r", "o", "r">>
TextUnknownAsin == <<"U", "N", "K", "N", "O", "W", "N">>
TextUnknownProduct == <<"U", "n", "k", "n", "o", "w", "n", " ", "P", "r", "o", "d", "u", "c", "t">>
TextNoFeaturesSpecified == <<"N", "o", " ", "f", "e", "a", "t", "u", "r", "e", "s", " ", "s", "p", "e", "c", "i", "f", "i", "e", "d">>
TextWidget == <<"W", "i", "d", "g", "e", "t">>
TextFeatures == <<"S", "t", "u", "r", "d", "y">>

\* !v of JavaScript for the values used here
Falsy(v) ==
  \/ v.t = "absent"
  \/ v.t = "number" /\ v.n = 0
  \/ v.t = "string" /\ v.s = <<>>

\* scraped data and processed images of one product; rating is in tenths
\* of a star
Scraped(price, rating, asin, reviewCount, shippingDays, features, name, mainImage, additionalImages) ==
  [price |-> price, rating |-> rating, asin |-> asin, reviewCount |-> reviewCount,
   shippingDays |-> shippingDays, features |-> features, name |-> name,
   mainImage |-> mainImage, additionalImages |-> additionalImages]

\* validateScrapedData: the numbers of errors and of warnings
ValidationErrors(d) ==
  (IF Falsy(d.price) THEN 1 ELSE 0)
    + (IF d.rating.t = "number" /\ (d.rating.n < 0 \/ d.rating.n > 50) THEN 1 ELSE 0)
    + (IF Falsy(d.asin) \/ d.asin = Str(TextUnknownAsin) THEN 1 ELSE 0)

ValidationWarnings(d) ==
  (IF d.reviewCount.t = "absent" \/ d.reviewCount.n < 0 THEN 1 ELSE 0)
    + (IF Falsy(d.shippingDays) \/ d.shippingDays.n < 0 \/ d.shippingDays.n > 30 THEN 1 ELSE 0)
    + (IF Falsy(d.features) \/ d.features = Str(TextNoFeaturesSpecified) THEN 1 ELSE 0)
    + (IF ~d.mainImage THEN 1 ELSE 0)
    + (IF d.additionalImages = 0 THEN 1 ELSE 0)
    + (IF Falsy(d.name) \/ d.name = Str(TextUnknownProduct) THEN 1 ELSE 0)

validateScrapedData(d) ==
  [isValid |-> ValidationErrors(d) = 0,
   errors |-> ValidationErrors(d),
   warnings |-> ValidationWarnings(d)]

\* the final status of a fetched item
FetchStatus(validation) ==
  IF ~validation.isValid THEN "failed"
  ELSE IF validation.warnings > 0 THEN "needs_review"
  ELSE "success"

CleanProduct ==
  Scraped(Num(1999), Num(45), Str(AsinValid), Num(12), Num(3), Str(TextFeatures), Str(TextWidget), TRUE, 2)
NoPriceProduct == [CleanProduct EXCEPT !.price = Num(0)]
BadRatingNoImageProduct == [CleanProduct EXCEPT !.rating = Num(51), !.mainImage = FALSE]
NoReviewsProduct == [CleanProduct EXCEPT !.reviewCount = Absent]

ScrapedSamples ==
  {CleanProduct, NoPriceProduct, BadRatingNoImageProduct, NoReviewsProduct}

\* what fetchAndProcessProduct does for one item
NotFetched == [kind |-> "none", message |-> <<>>, data |-> CleanProduct]
FetchThrew(message) == [kind |-> "threw", message |-> message, data |-> CleanProduct]
FetchReturned(d) == [kind |-> "returned", message |-> <<>>, data |-> d]

\* the message of the ProductFetchError that fetchAndProcessProduct throws
ProductFetchErrorMessage(asin, inner) ==
  TextFailedToFetchAsin \o asin \o TextColonSpace \o inner

\* failures of scraper.fetchProduct (a reply classified client_error)
FetchFailure(asin) ==
  FetchThrew(ProductFetchErrorMessage(asin,
               ScrapeWorkError(asin, ScrapeReply(200, StatusBlankPage)).message.s))

ItemOutcomes(asin) == {FetchFailure(asin)} \cup {FetchReturned(d) : d \in ScrapedSamples}

BulkAsins == {AsinValid, AsinValidDigits}

RECURSIVE SeqsUpTo(_, _)
\* the sequences over S of length at most n
SeqsUpTo(S, n) ==
  IF n = 0 THEN {<<>>}
  ELSE LET shorter == SeqsUpTo(S, n - 1) IN
       shorter \cup {Append(q, x) : q \in shorter, x \in S}

\* the fixed delay between two items, in ms
RateLimitDelayMs == 200

\* no delay between items
NeedsDelayNever(i, n) == FALSE

\* i < asins.length - 1, for the index counted from 1
NeedsDelay(i, n) == i < n

ResultEntry(asin, status, hasData, error) ==
  [asin |-> asin, status |-> status, hasData |-> hasData, error |-> error]

CountStatus(results, status) ==
  Cardinality({k \in 1..Len(results) : results[k].status = status})

\* the value fetchBulkProducts returns
Aggregate(results) ==
  [how |-> "resolved", results |-> results,
   successCount |-> CountStatus(results, "success"),
   failedCount |-> CountStatus(results, "failed"),
   needsReviewCount |-> CountStatus(results, "needs_review")]

BulkRejected == [BulkPending EXCEPT !.how = "rejected"]

BeginEvent(i) == [ev |-> "begin", i |-> i, ms |-> 0]
EndEvent(i) == [ev |-> "end", i |-> i, ms |-> 0]
DelayEvent(ms) == [ev |-> "delay", i |-> 0, ms |-> ms]


\* what an onProgress invocation that throws leaves in the catch block:
\* error instanceof Error ? error.message : 'Unknown error'
CallbackMessage == MsgBoom.s

\* after the try/catch of item i: the delay, or the summary and the return
AfterItem(asins, results, trace, i) ==
  /\ bResults' = results
  /\ bTrace' = Append(trace, EndEvent(i))
  /\ IF NeedsDelay(i, Len(asins)) THEN
       /\ bPc' = "delaying"
       /\ UNCHANGED bReturn
     ELSE
       /\ bPc' = "done"
       /\ bReturn' = Aggregate(results)

\* the catch block of item i; throwsFailed: onProgress(asin, 'failed') throws
CatchPath(asins, cb, results, trace, i, message, throwsFailed) ==
  LET rs == Append(results, ResultEntry(asins[i], "failed", FALSE, message)) IN
  IF cb /\ throwsFailed THEN
    /\ bResults' = rs
    /\ bTrace' = trace
    /\ bPc' = "done"
    /\ bReturn' = BulkRejected
  ELSE AfterItem(asins, rs, trace, i)

\* the top of iteration i up to its await; throwsFetching:
\* onProgress(asin, 'fetching') throws
LoopTop(asins, cb, i, results, trace, throwsFetching, throwsFailed) ==
  IF cb /\ throwsFetching THEN
    /\ UNCHANGED bInFlight
    /\ bFetched' = Append(bFetched, NotFetched)
    /\ CatchPath(asins, cb, results, Append(trace, BeginEvent(i)), i, CallbackMessage, throwsFailed)
  ELSE
    /\ bInFlight' = bInFlight + 1
    /\ bPc' = "fetching"
    /\ bResults' = results
    /\ bTrace' = Append(trace, BeginEvent(i))
    /\ UNCHANGED <<bFetched, bReturn>>

\* fetchBulkProducts(asins, onProgress) is called
BulkCall(asins, cb, throwsFetching, throwsFailed) ==
  /\ bPc = "idle"
  /\ bAsins' = asins
  /\ bOnProgress' = cb
  /\ IF Len(asins) = 0 THEN
       /\ bPc' = "done"
       /\ bReturn' = Aggregate(<<>>)
       /\ UNCHANGED <<bI, bInFlight, bFetched, bResults, bTrace>>
     ELSE
       /\ bI' = 1
       /\ LoopTop(asins, cb, 1, <<>>, <<>>, throwsFetching, throwsFailed)

\* fetchAndProcessProduct of the current item settles; throwsAfter:
\* onProgress(asin, status, productData) throws
BulkFetchSettles(o, throwsAfter, throwsFailed) ==
  /\ bPc = "fetching"
  /\ bInFlight' = bInFlight - 1
  /\ bFetched' = Append(bFetched, o)
  /\ IF o.kind = "threw" THEN
       CatchPath(bAsins, bOnProgress, bResults, bTrace, bI, o.message, throwsFailed)
     ELSE
       LET status == FetchStatus(validateScrapedData(o.data))
           rs == Append(bResults, ResultEntry(bAsins[bI], status, TRUE, <<>>))
       IN IF bOnProgress /\ throwsAfter
            THEN CatchPath(bAsins, bOnProgress, rs, bTrace, bI, CallbackMessage, throwsFailed)
            ELSE AfterItem(bAsins, rs, bTrace, bI)
  /\ UNCHANGED <<bAsins, bOnProgress, bI>>

\* the delay between two items elapses and the next iteration begins
BulkDelayDone(throwsFetching, throwsFailed) ==
  /\ bPc = "delaying"
  /\ bI' = bI + 1
  /\ LoopTop(bAsins, bOnProgress, bI + 1, bResults,
             Append(bTrace, DelayEvent(RateLimitDelayMs)), throwsFetching, throwsFailed)
  /\ UNCHANGED <<bAsins, bOnProgress>>

\* every subsystem but the bulk fetch is idle
InitBulk ==
  /\ ClassifyIdle
  /\ DelayIdle
  /\ RetryIdle
  /\ LaterIdle

NextBulk ==
  \/ \E asins \in SeqsUpTo(BulkAsins, MaxAsins), cb, tf, tx \in BOOLEAN :
       BulkCall(asins, cb, tf, tx) /\ UNCHANGED notBulkVars
  \/ /\ bPc = "fetching"
     /\ \E o \in ItemOutcomes(bAsins[bI]), ta, tx \in BOOLEAN :
          BulkFetchSettles(o, ta, tx) /\ UNCHANGED notBulkVars
  \/ \E tf, tx \in BOOLEAN : BulkDelayDone(tf, tx) /\ UNCHANGED notBulkVars

SpecBulk == InitBulk /\ [][NextBulk]_vars

\* the iterations begun so far, in the order they began
BegunItems == SelectSeq(bTrace, LAMBDA e : e.ev = "begin")

\* C15: for every ASIN list and every combination of per-item outcomes,
\* fetchBulkProducts processes every item in input order and returns an
\* aggregate with exactly one entry per input ASIN in the same order; a
\* failing item never aborts the batch and never makes a later item be
\* skipped.
C15_OneEntryPerAsinInOrder ==
  /\ bReturn.how # "rejected"
  /\ \A k \in 1..Len(BegunItems) : BegunItems[k].i = k
  /\ bReturn.how = "resolved" =>
       /\ Len(BegunItems) = Len(bAsins)
       /\ Len(bReturn.results) = Len(bAsins)
       /\ \A k \in 1..Len(bAsins) : bReturn.results[k].asin = bAsins[k]

\* C16: an item whose fetch threw is 'failed' with the error message and no
\* data, an item with validation errors is 'failed', a valid item with a
\* warning is 'needs_review', every other item is 'success'; the three
\* counts are the numbers of entries with those statuses and sum to the
\* number of input ASINs.
C16_StatusesAndCounts ==
  bReturn.how = "resolved" =>
    /\ \A k \in 1..Len(bAsins) :
         /\ k <= Len(bReturn.results)
         /\ k <= Len(bFetched)
         /\ LET r == bReturn.results[k]
                o == bFetched[k]
            IN /\ o.kind = "threw" =>
                    r.status = "failed" /\ r.error = o.message /\ ~r.hasData
               /\ (o.kind = "returned" /\ ValidationErrors(o.data) > 0) =>
                    r.status = "failed"
               /\ (o.kind = "returned" /\ ValidationErrors(o.data) = 0
                     /\ ValidationWarnings(o.data) > 0) =>
                    r.status = "needs_review"
               /\ (o.kind = "returned" /\ ValidationErrors(o.data) = 0
                     /\ ValidationWarnings(o.data) = 0) =>
                    r.status = "success" /\ r.hasData
    /\ bReturn.successCount = CountStatus(bReturn.results, "success")
    /\ bReturn.failedCount = CountStatus(bReturn.results, "failed")
    /\ bReturn.needsReviewCount = CountStatus(bReturn.results, "needs_review")
    /\ bReturn.successCount + bReturn.failedCount + bReturn.needsReviewCount = Len(bAsins)

\* C17: no two fetches are in flight together; between the end of item i
\* and the beginning of item i+1 the 200 ms delay elapses, after a success
\* and after a failure alike; no delay follows the last item; the
\* aggregate is returned only after the last item was processed.
C17_OneAtATimeWithFixedDelay ==
  /\ bInFlight <= 1
  /\ \A p \in 1..Len(bTrace) :
       /\ (bTrace[p].ev = "begin" /\ bTrace[p].i > 1) =>
            /\ p >= 3
            /\ bTrace[p - 1] = DelayEvent(RateLimitDelayMs)
            /\ bTrace[p - 2] = EndEvent(bTrace[p].i - 1)
       /\ bTrace[p].ev = "delay" =>
            /\ p >= 2
            /\ bTrace[p - 1].ev = "end"
            /\ bTrace[p - 1].i < Len(bAsins)
       /\ (bTrace[p].ev = "end" /\ p < Len(bTrace)) => bTrace[p + 1].ev = "delay"
       /\ (bTrace[p].ev = "begin" /\ p < Len(bTrace)) => bTrace[p + 1] = EndEvent(bTrace[p].i)
  /\ (bPc = "fetching") = (bInFlight = 1)
  /\ bPc = "delaying" => Last(bTrace).ev = "end" /\ Last(bTrace).i < Len(bAsins)
  /\ (bReturn.how = "resolved" /\ bAsins # <<>>) =>
       /\ Last(bTrace) = EndEvent(Len(bAsins))
       /\ Len(SelectSeq(bTrace, LAMBDA e : e.ev = "delay")) = Len(bAsins) - 1

\* a batch returned after a failed first item and a fetched second item,
\* with a delay slept after each item but the last
C17_Witness ==
  /\ bReturn.how = "resolved"
  /\ Len(bAsins) >= 2
  /\ bFetched[1].kind = "threw"
  /\ bFetched[2].kind = "returned"
  /\ bTrace[3] = DelayEvent(RateLimitDelayMs)


(***************************************************************************)
(* validatePollResult                                                      *)
(***************************************************************************)
\* the longest rankings list
MaxRankings == 3

\* 100 (percent) and the tolerance 0.1, in hundredths of a percent
HundredPercent == 10000
SumTolerance == 10

Abs(x) == IF x < 0 THEN 0 - x ELSE x

RECURSIVE SumSeq(_)
\* rankings.reduce((sum, r) => sum + r.percentage, 0)
SumSeq(q) == IF q = <<>> THEN 0 ELSE q[1] + SumSeq(Tail(q))

validatePollResult(rankings, samples) ==
  /\ Abs(SumSeq(rankings) - HundredPercent) < SumTolerance
  /\ Len(rankings) > 0
  /\ samples > 0
  /\ \A k \in 1..Len(rankings) : rankings[k] > 0

\* percentages of a ranking, in hundredths of a percent
Percentages == {0, 2500, 3333, 3334, 5000, 5005, 10000}
\* numbers of free-text sample responses: none, a short sample, the expected 50
SampleCounts == {0, 3, 50}

ValidatePoll(rankings, samples) ==
  /\ pvPc = "idle"
  /\ pvPc' = "done"
  /\ pvRankings' = rankings
  /\ pvSamples' = samples
  /\ pvVerdict' = validatePollResult(rankings, samples)

\* every subsystem but the poll validator is idle
InitVerdict ==
  /\ ClassifyIdle
  /\ DelayIdle
  /\ RetryIdle
  /\ LaterIdle

NextVerdict ==
  \E rankings \in SeqsUpTo(Percentages, MaxRankings), samples \in SampleCounts :
    ValidatePoll(rankings, samples) /\ UNCHANGED notVerdictVars

SpecVerdict == InitVerdict /\ [][NextVerdict]_vars

\* C20: validatePollResult is true exactly when every ranking's percentage
\* is above 0 and the percentages sum to 100 within the 0.1 tolerance;
\* the number of sample responses, zero included, does not change the
\* verdict.
C20_VerdictIgnoresSampleCount ==
  pvPc = "done" =>
    (pvVerdict <=>
       /\ \A k \in 1..Len(pvRankings) : pvRankings[k] > 0
       /\ Abs(SumSeq(pvRankings) - HundredPercent) < SumTolerance)


(***************************************************************************)
(* The route handlers POST /api/ocr, /api/poll and /api/scrape             *)
(***************************************************************************)
PatInvalidOrBlankImage == <<"I", "n", "v", "a", "l", "i", "d", " ", "o", "r", " ", "b", "l", "a", "n", "k", " ", "i", "m", "a", "g", "e">>
PatInvalidImageProvided == <<"I", "n", "v", "a", "l", "i", "d", " ", "i", "m", "a", "g", "e", " ", "p", "r", "o", "v", "i", "d", "e", "d">>
PatApiAuthFailed == <<"A", "P", "I", " ", "a", "u", "t", "h", "e", "n", "t", "i", "c", "a", "t", "i", "o", "n", " ", "f", "a", "i", "l", "e", "d">>
TextUnexpectedEndOfJson == <<"U", "n", "e", "x", "p", "e", "c", "t", "e", "d", " ", "e", "n", "d", " ", "o", "f", " ", "J", "S", "O", "N", " ", "i", "n", "p", "u", "t">>
AsinPaddedLowerCase == <<" ", "b", "0", "8", "w", "m", "3", "l", "m", "j", "f", " ">>

\* String.prototype.toUpperCase on one character
UpperChar(c) ==
  IF \E i \in 1..Len(LowerChars) : LowerChars[i] = c
    THEN UpperChars[CHOOSE i \in 1..Len(LowerChars) : LowerChars[i] = c]
    ELSE c

\* String.prototype.toUpperCase
ToUpperCase(s) == [i \in 1..Len(s) |-> UpperChar(s[i])]

RECURSIVE TrimStart(_)
TrimStart(s) == IF s # <<>> /\ Head(s) = " " THEN TrimStart(Tail(s)) ELSE s

RECURSIVE TrimEnd(_)
TrimEnd(s) == IF s # <<>> /\ s[Len(s)] = " " THEN TrimEnd(SubSeq(s, 1, Len(s) - 1)) ELSE s

\* String.prototype.trim
Trim(s) == TrimEnd(TrimStart(s))

\* request bodies; parses: request.json() returns
OcrBody(image) == [NoBody EXCEPT !.parses = TRUE, !.image = image]
PollBody(products, demographic, question, pollType) ==
  [NoBody EXCEPT !.parses = TRUE, !.products = products, !.demographic = demographic,
                 !.question = question, !.pollType = pollType]
ScrapeBody(asin, hasAsins, asins) ==
  [NoBody EXCEPT !.parses = TRUE, !.asin = asin, !.hasAsins = hasAsins, !.asins = asins]

PollTypes == {"main_image", "image_stack", "features"}

OcrBodies == {NoBody} \cup {OcrBody(image) : image \in BOOLEAN}
PollBodies ==
  {NoBody} \cup {PollBody(n, d, q, t) : n \in {0, 2}, d \in BOOLEAN, q \in BOOLEAN,
                                        t \in {"", "main_image", "features", "bogus"}}
ScrapeBodies ==
  {NoBody}
    \cup {ScrapeBody(asin, FALSE, <<>>) : asin \in {<<>>, AsinValid, AsinLowerCase, AsinShort}}
    \cup {ScrapeBody(asin, TRUE, asins) :
            asin \in {<<>>, AsinValid},
            asins \in {<<>>, <<AsinShort>>, <<AsinValid>>, <<AsinPaddedLowerCase>>,
                       <<AsinValidDigits, AsinHyphen>>}}

Bodies(endpoint) ==
  IF endpoint = "ocr" THEN OcrBodies
  ELSE IF endpoint = "poll" THEN PollBodies
  ELSE ScrapeBodies

\* isValidASIN of the scrape route
isValidASIN(asin) ==
  /\ Len(asin) = 10
  /\ \A i \in 1..Len(asin) : asin[i] \in CharsOf(UpperChars) \cup CharsOf(Digits)

\* asins.map(a => a.trim().toUpperCase())
AsinList(b) ==
  IF b.hasAsins THEN [k \in 1..Len(b.asins) |-> ToUpperCase(Trim(b.asins[k]))] ELSE <<>>

\* validateBulkASINs(asinList).valid
ValidAsins(list) == SelectSeq(list, LAMBDA a : isValidASIN(a))

\* the catch block of the OCR route: the status for an Error with this message
OcrCatchStatus(message) ==
  IF Includes(message, PatInvalidOrBlankImage) \/ Includes(message, PatInvalidImageProvided)
    THEN 400
  ELSE IF Includes(message, PatApiAuthFailed) THEN 401
  ELSE 500

\* the catch block of the poll route
PollCatchStatus(message) == 500

\* the catch blocks of the scrape route
ScrapeCatchStatus(message) == 500

CatchStatus(endpoint, message) ==
  IF endpoint = "ocr" THEN OcrCatchStatus(message)
  ELSE IF endpoint = "poll" THEN PollCatchStatus(message)
  ELSE ScrapeCatchStatus(message)

Respond(status) == [next |-> "respond", status |-> status, fetcher |-> FALSE]
RespondWithFetcher(status) == [next |-> "respond", status |-> status, fetcher |-> TRUE]
CallService(fetcher) == [next |-> "call", status |-> 0, fetcher |-> fetcher]

\* each handler from its entry to its first response or to the call of
\* the service
OcrHandler(b) ==
  IF ~b.parses THEN Respond(OcrCatchStatus(TextUnexpectedEndOfJson))
  ELSE IF ~b.image THEN Respond(400)
  ELSE CallService(FALSE)

PollHandler(b) ==
  IF ~b.parses THEN Respond(PollCatchStatus(TextUnexpectedEndOfJson))
  ELSE IF b.products = 0 THEN Respond(400)
  ELSE IF ~b.demographic \/ ~b.question THEN Respond(400)
  ELSE IF b.pollType = "" \/ b.pollType \notin PollTypes THEN Respond(400)
  ELSE CallService(FALSE)

ScrapeHandler(b, hasKey) ==
  IF ~b.parses THEN Respond(ScrapeCatchStatus(TextUnexpectedEndOfJson))
  ELSE IF b.asin = <<>> /\ ~b.hasAsins THEN Respond(400)
  ELSE IF ~hasKey THEN Respond(500)
  ELSE IF b.asin # <<>> THEN
    IF ~isValidASIN(b.asin) THEN RespondWithFetcher(400) ELSE CallService(TRUE)
  ELSE IF Len(AsinList(b)) = 0 THEN RespondWithFetcher(400)
  ELSE IF Len(ValidAsins(AsinList(b))) = 0 THEN RespondWithFetcher(400)
  ELSE CallService(TRUE)

Handler(endpoint, b, hasKey) ==
  IF endpoint = "ocr" THEN OcrHandler(b)
  ELSE IF endpoint = "poll" THEN PollHandler(b)
  ELSE ScrapeHandler(b, hasKey)

\* the image processor's two collections
Resources(cache, urls) == [cache |-> cache, urls |-> urls]

\* cleanup that clears the object URLs only
cleanupKeepsCache(p) == Resources(p.cache, {})

\* ImageProcessor.cleanup
cleanup(p) == Resources({}, {})

\* the finally block of the scrape route
Finally(fetcher, p) == IF fetcher THEN cleanup(p) ELSE p

ImageUrls == {"main", "extra"}
ObjectUrl(u) == <<"blob", u>>


\* the result the service resolves with: an OCR extraction (rating in
\* tenths of a star) or the percentages and sample count of a poll result
ServiceResult(price, shippingDays, reviews, rating, rankings, samples) ==
  [price |-> price, shippingDays |-> shippingDays, reviews |-> reviews, rating |-> rating,
   rankings |-> rankings, samples |-> samples]

validateOCRExtraction(d) ==
  /\ d.price > 0
  /\ d.price < 100000
  /\ d.shippingDays >= 0
  /\ d.shippingDays <= 30
  /\ d.reviews >= 0
  /\ d.rating >= 0
  /\ d.rating <= 50

ServiceResults(endpoint) ==
  IF endpoint = "ocr" THEN
    {ServiceResult(20, 3, 10, 45, <<>>, 0), ServiceResult(0, 3, 10, 45, <<>>, 0),
     ServiceResult(20, 31, 10, 45, <<>>, 0)}
  ELSE IF endpoint = "poll" THEN
    {ServiceResult(0, 0, 0, 0, <<5000, 5000>>, 50), ServiceResult(0, 0, 0, 0, <<5000, 5000>>, 0),
     ServiceResult(0, 0, 0, 0, <<10000, 0>>, 50)}
  ELSE {ServiceResult(20, 3, 10, 45, <<>>, 0)}

\* the route's test of the result before it answers 200
ResultValid(endpoint, r) ==
  IF endpoint = "ocr" THEN validateOCRExtraction(r)
  ELSE IF endpoint = "poll" THEN validatePollResult(r.rankings, r.samples)
  ELSE TRUE

\* the status the OCR and poll routes give an invalid result
InvalidResultStatus(endpoint) == IF endpoint = "ocr" THEN 400 ELSE 500

\* failures that make the service behind a route reject
ForbiddenError == ErrObj(403, "", "Error", MsgBoom)
BadRequestError == ErrObj(400, "", "Error", MsgBoom)
RouteFailures(endpoint) ==
  IF endpoint = "scrape"
    THEN {ScrapeWorkError(AsinValid, ScrapeReply(200, StatusBlankPage)), PlainError}
    ELSE {AuthError, ForbiddenError, BadRequestError, CreditError,
          NewError(TextNoJsonInResponse), NewError(TextInvalidOrBlankImage)}

\* the message of the Error the route's catch block receives
CaughtMessage(endpoint, b, e) ==
  IF endpoint = "scrape" THEN ProductFetchErrorMessage(b.asin, e.message.s)
  ELSE OuterCatch(endpoint, e)

\* new AmazonProductFetcher() throws: no API key
ConstructorThrows(endpoint, b, hasKey) ==
  /\ endpoint = "scrape"
  /\ b.parses
  /\ ~(b.asin = <<>> /\ ~b.hasAsins)
  /\ ~hasKey

\* the response leaves the handler: return, then the finally block
Answer(status, hasResult, fetcher) ==
  /\ rPc' = "done"
  /\ rStatus' = status
  /\ rHasResult' = hasResult
  /\ rCache' = Finally(fetcher, Resources(rCache, rObjectUrls)).cache
  /\ rObjectUrls' = Finally(fetcher, Resources(rCache, rObjectUrls)).urls
  /\ rCleanupRan' = fetcher

\* a request arrives
RouteRequest(endpoint, b, hasKey) ==
  /\ rPc = "idle"
  /\ rEndpoint' = endpoint
  /\ rBody' = b
  /\ rHasKey' = hasKey
  /\ LET h == Handler(endpoint, b, hasKey) IN
     /\ rFetcher' = h.fetcher
     /\ IF h.next = "call" THEN
          /\ rPc' = "calling"
          /\ rServiceCalls' = rServiceCalls + 1
          /\ UNCHANGED <<rCache, rObjectUrls, rOtherFailure, rStatus, rHasResult, rCleanupRan>>
        ELSE
          /\ Answer(h.status, FALSE, h.fetcher)
          /\ rOtherFailure' = ConstructorThrows(endpoint, b, hasKey)
          /\ UNCHANGED rServiceCalls
  /\ UNCHANGED <<rCachedEver, rFailure>>

\* the fetcher downloads and caches an image of the product
RouteImageCached(u) ==
  /\ rPc = "calling"
  /\ rEndpoint = "scrape"
  /\ u \notin rCache
  /\ rCache' = rCache \cup {u}
  /\ rObjectUrls' = rObjectUrls \cup {ObjectUrl(u)}
  /\ rCachedEver' = TRUE
  /\ UNCHANGED <<rEndpoint, rBody, rHasKey, rPc, rFetcher, rServiceCalls, rFailure,
                 rOtherFailure, rStatus, rHasResult, rCleanupRan>>

\* the service resolves with r
RouteServiceResolves(r) ==
  /\ rPc = "calling"
  /\ IF rEndpoint = "scrape" THEN
       /\ rPc' = "serializing"
       /\ UNCHANGED <<rCache, rObjectUrls, rOtherFailure, rStatus, rHasResult, rCleanupRan>>
     ELSE IF ~ResultValid(rEndpoint, r) THEN
       /\ Answer(InvalidResultStatus(rEndpoint), FALSE, rFetcher)
       /\ rOtherFailure' = TRUE
     ELSE
       /\ Answer(200, TRUE, rFetcher)
       /\ UNCHANGED rOtherFailure
  /\ UNCHANGED <<rEndpoint, rBody, rHasKey, rFetcher, rCachedEver, rServiceCalls, rFailure>>

\* the service rejects because of e (fetchBulkProducts without a callback
\* never rejects)
RouteServiceRejects(e) ==
  /\ rPc = "calling"
  /\ rEndpoint = "scrape" => rBody.asin # <<>>
  /\ rFailure' = e
  /\ Answer(CatchStatus(rEndpoint, CaughtMessage(rEndpoint, rBody, e)), FALSE, rFetcher)
  /\ UNCHANGED <<rEndpoint, rBody, rHasKey, rFetcher, rCachedEver, rServiceCalls, rOtherFailure>>

\* serializeProduct settles: the 200 response, or the inner catch block
RouteSerialized(ok) ==
  /\ rPc = "serializing"
  /\ IF ok THEN Answer(200, TRUE, rFetcher) ELSE Answer(500, FALSE, rFetcher)
  /\ rOtherFailure' = ~ok
  /\ UNCHANGED <<rEndpoint, rBody, rHasKey, rFetcher, rCachedEver, rServiceCalls, rFailure>>

Endpoints == {"ocr", "poll", "scrape"}

\* every subsystem but the routes is idle
InitRoute ==
  /\ ClassifyIdle
  /\ DelayIdle
  /\ RetryIdle
  /\ LaterIdle

NextRoute ==
  \/ \E endpoint \in Endpoints, hasKey \in BOOLEAN :
       \E b \in Bodies(endpoint) : RouteRequest(endpoint, b, hasKey) /\ UNCHANGED notRouteVars
  \/ \E u \in ImageUrls : RouteImageCached(u) /\ UNCHANGED notRouteVars
  \/ \E r \in ServiceResults(rEndpoint) : RouteServiceResolves(r) /\ UNCHANGED notRouteVars
  \/ \E e \in RouteFailures(rEndpoint) : RouteServiceRejects(e) /\ UNCHANGED notRouteVars
  \/ \E ok \in BOOLEAN : RouteSerialized(ok) /\ UNCHANGED notRouteVars

SpecRoute == InitRoute /\ [][NextRoute]_vars

\* C18: every /api/scrape request that constructed a fetcher ends with
\* fetcher.cleanup() having run, on every exit path, and after it the image
\* cache and the set of tracked object URLs are both empty.
C18_CacheReleasedOnEveryExit ==
  (rPc = "done" /\ rFetcher) =>
    /\ rCleanupRan
    /\ rCache = {}
    /\ rObjectUrls = {}

\* a single fetch that cached an image and then failed has been answered
C18_Witness ==
  /\ rPc = "done"
  /\ rFetcher
  /\ rCachedEver
  /\ rFailure # NonObject("undefined")
  /\ rStatus = 500

\* the input is missing or malformed
BadInput(endpoint, b) ==
  \/ ~b.parses
  \/ endpoint = "ocr" /\ ~b.image
  \/ endpoint = "poll"
       /\ (b.products = 0 \/ ~b.demographic \/ ~b.question \/ b.pollType \notin PollTypes)
  \/ endpoint = "scrape"
       /\ \/ b.asin = <<>> /\ ~b.hasAsins
          \/ b.asin # <<>> /\ ~(Len(b.asin) = 10 /\ \A i \in 1..Len(b.asin) : b.asin[i] \in UpperAlnum)
          \/ b.asin = <<>> /\ ValidAsins(AsinList(b)) = <<>>

\* C19: each route answers 400 for missing or malformed input or a failure
\* classified client_error, 401 for a failure classified auth_error and
\* 500 for every other failure; for bad input the service is never called;
\* a 200 comes only with the structured result.
C19_StatusFollowsErrorKind ==
  rPc = "done" =>
    /\ BadInput(rEndpoint, rBody) => rStatus = 400 /\ rServiceCalls = 0
    /\ (~BadInput(rEndpoint, rBody) /\ rFailure # NonObject("undefined")) =>
         rStatus = (IF classifyError(rFailure).errorType = "client_error" THEN 400
                    ELSE IF classifyError(rFailure).errorType = "auth_error" THEN 401
                    ELSE 500)
    /\ (~BadInput(rEndpoint, rBody) /\ rOtherFailure) => rStatus = 500
    /\ rStatus = 200 =>
         rHasResult /\ rFailure = NonObject("undefined") /\ ~rOtherFailure


\* the status that the fetch and the validation of an item call for
StatusByFetchAndValidation(o) ==
  IF o.kind # "returned" \/ ValidationErrors(o.data) > 0 THEN "failed"
  ELSE IF ValidationWarnings(o.data) > 0 THEN "needs_review"
  ELSE "success"

\* C28: whatever onProgress does on any of its invocations, throwing
\* included, the batch runs to the end and the aggregate holds exactly one
\* result per input ASIN, whose status follows from that item's fetch and
\* validation alone.
C28_ProgressCallbackIsSideChannel ==
  bOnProgress =>
    /\ bReturn.how # "rejected"
    /\ \A k \in 1..Len(bFetched) : bFetched[k].kind # "none"
    /\ bReturn.how = "resolved" =>
         /\ Len(bReturn.results) = Len(bAsins)
         /\ \A k \in 1..Len(bReturn.results) :
              /\ k <= Len(bFetched)
              /\ bReturn.results[k].asin = bAsins[k]
              /\ bReturn.results[k].status = StatusByFetchAndValidation(bFetched[k])


(***************************************************************************)
(* ScrapeOpsClient.fetchBulkProducts                                       *)
(***************************************************************************)
TextFailedToFetch == <<"F", "a", "i", "l", "e", "d", " ", "t", "o", " ", "f", "e", "t", "c", "h">>

\* the record pushed for a fetched product and the one pushed by the catch
\* block
ProductRecord(asin, d) == [asin |-> asin, name |-> d.name.s, price |-> d.price.n]
PlaceholderRecord(asin) == [asin |-> asin, name |-> TextFailedToFetch, price |-> 0]

\* what fetchProduct does for one item
ScraperOutcomes == {FetchReturned(CleanProduct), FetchReturned(NoReviewsProduct), FetchThrew(MsgBoom.s)}

\* the delay of fetchBulkProducts between requests, in ms
ScraperDelayMs == 200

\* whether the delay line is reached after outcome o: it sits in the try
\* block, after results.push
DelayFollows(o) == o.kind = "returned"

\* the for-of loop moves to item i, or past the end of asins
ScraperNext(asins, i, trace) ==
  IF i <= Len(asins) THEN
    /\ sbI' = i
    /\ sbPc' = "fetching"
    /\ sbInFlight' = sbInFlight + 1
    /\ sbTrace' = Append(trace, BeginEvent(i))
    /\ UNCHANGED sbReturn
  ELSE
    /\ sbI' = i
    /\ sbPc' = "done"
    /\ UNCHANGED sbInFlight
    /\ sbTrace' = trace
    /\ sbReturn' = [returned |-> TRUE, results |-> sbResults]

\* fetchBulkProducts(asins) is called
ScraperBulkCall(asins) ==
  /\ sbPc = "idle"
  /\ sbAsins' = asins
  /\ ScraperNext(asins, 1, <<>>)
  /\ UNCHANGED <<sbOutcomes, sbResults>>

\* fetchProduct of the current item settles
ScraperFetchSettles(o) ==
  /\ sbPc = "fetching"
  /\ sbOutcomes' = Append(sbOutcomes, o)
  /\ sbResults' = Append(sbResults,
                         IF o.kind = "returned" THEN ProductRecord(sbAsins[sbI], o.data)
                         ELSE PlaceholderRecord(sbAsins[sbI]))
  /\ IF DelayFollows(o) THEN
       /\ sbPc' = "delaying"
       /\ sbInFlight' = sbInFlight - 1
       /\ sbTrace' = Append(sbTrace, EndEvent(sbI))
       /\ UNCHANGED <<sbI, sbReturn>>
     ELSE IF sbI < Len(sbAsins) THEN
       /\ sbI' = sbI + 1
       /\ sbPc' = "fetching"
       /\ UNCHANGED <<sbInFlight, sbReturn>>
       /\ sbTrace' = Append(Append(sbTrace, EndEvent(sbI)), BeginEvent(sbI + 1))
     ELSE
       /\ sbI' = sbI + 1
       /\ sbPc' = "done"
       /\ sbInFlight' = sbInFlight - 1
       /\ sbTrace' = Append(sbTrace, EndEvent(sbI))
       /\ sbReturn' = [returned |-> TRUE, results |-> sbResults']
  /\ UNCHANGED sbAsins

\* the delay after a fetched product elapses
ScraperDelayDone ==
  /\ sbPc = "delaying"
  /\ ScraperNext(sbAsins, sbI + 1, Append(sbTrace, DelayEvent(ScraperDelayMs)))
  /\ UNCHANGED <<sbAsins, sbOutcomes, sbResults>>

\* every subsystem but the scraper's bulk fetch is idle
InitScraperBulk ==
  /\ ClassifyIdle
  /\ DelayIdle
  /\ RetryIdle
  /\ LaterIdle

NextScraperBulk ==
  \/ \E asins \in SeqsUpTo(BulkAsins, MaxAsins) :
       ScraperBulkCall(asins) /\ UNCHANGED notScraperBulkVars
  \/ \E o \in ScraperOutcomes : ScraperFetchSettles(o) /\ UNCHANGED notScraperBulkVars
  \/ ScraperDelayDone /\ UNCHANGED notScraperBulkVars

SpecScraperBulk == InitScraperBulk /\ [][NextScraperBulk]_vars

\* C25: the 200 ms delay lies between every two consecutive requests, also
\* when the earlier one failed; the ASINs are processed one at a time in
\* input order; the array returned has exactly one record per input ASIN in
\* input order, a 'Failed to fetch' placeholder where the fetch threw.
C25_ScraperBulkDelaysBetweenRequests ==
  /\ sbInFlight <= 1
  /\ \A p \in 1..Len(sbTrace) :
       (sbTrace[p].ev = "begin" /\ sbTrace[p].i > 1) =>
         /\ p >= 3
         /\ sbTrace[p - 1] = DelayEvent(ScraperDelayMs)
         /\ sbTrace[p - 2] = EndEvent(sbTrace[p].i - 1)
  /\ sbReturn.returned =>
       /\ Len(sbReturn.results) = Len(sbAsins)
       /\ \A k \in 1..Len(sbAsins) :
            /\ sbReturn.results[k].asin = sbAsins[k]
            /\ (sbReturn.results[k].name = TextFailedToFetch) = (sbOutcomes[k].kind = "threw")


(***************************************************************************)
(* convertToRankings                                                       *)
(***************************************************************************)
\* the longest products argument
MaxProducts == 2

NameMug == <<"M", "u", "g">>
NameBlueMug == <<"B", "l", "u", "e", " ", "M", "u", "g">>
EntryBlue == <<"B", "L", "U", "E">>
EntryVase == <<"V", "a", "s", "e">>

Product(id, name) == [id |-> id, name |-> name]
Entry(product, percentage) == [product |-> product, percentage |-> percentage]

\* two of the sample products carry the same name
SampleProducts ==
  {Product("p1", NameMug), Product("p2", NameBlueMug), Product("p4", NameMug)}

\* product lists: products with distinct ids
ProductLists ==
  {q \in SeqsUpTo(SampleProducts, MaxProducts) :
     q # <<>> /\ \A i, j \in 1..Len(q) : i # j => q[i].id # q[j].id}

EntryNames == {NameMug, EntryBlue, EntryVase}
EntryPercentages == {20, 40}
SampleEntries == {Entry(n, p) : n \in EntryNames, p \in EntryPercentages}

RECURSIVE InsertSorted(_, _)
\* x goes behind every entry whose percentage is not smaller: the sort is
\* stable and its comparator is b.percentage - a.percentage
InsertSorted(q, x) ==
  IF q = <<>> THEN <<x>>
  ELSE IF Head(q).percentage >= x.percentage THEN <<Head(q)>> \o InsertSorted(Tail(q), x)
  ELSE <<x>> \o q

RECURSIVE SortByPercentage(_)
\* rankings.sort((a, b) => b.percentage - a.percentage)
SortByPercentage(q) ==
  IF q = <<>> THEN <<>>
  ELSE InsertSorted(SortByPercentage(SubSeq(q, 1, Len(q) - 1)), q[Len(q)])

\* Array.prototype.find: the index of the first element that satisfies
\* Test, 0 when there is none
FindIndex(q, Test(_)) ==
  IF \E i \in 1..Len(q) : Test(q[i])
    THEN CHOOSE i \in 1..Len(q) : Test(q[i]) /\ \A j \in 1..(i - 1) : ~Test(q[j])
    ELSE 0

\* the partial match without toLowerCase
PartialMatchCaseSensitive(pname, iname) ==
  Includes(pname, iname) \/ Includes(iname, pname)

\* the partial match of a product name and an entry name
PartialMatch(pname, iname) ==
  \/ Includes(ToLowerCase(pname), ToLowerCase(iname))
  \/ Includes(ToLowerCase(iname), ToLowerCase(pname))

\* the product?.id || '' of the entry at position index (counted from 1)
\* of the sorted entries
ProductIdFor(item, index, products) ==
  LET exact == FindIndex(products, LAMBDA p : p.name = item.product)
      partial == FindIndex(products, LAMBDA p : PartialMatch(p.name, item.product))
  IN IF exact # 0 THEN products[exact].id
     ELSE IF partial # 0 THEN products[partial].id
     ELSE IF index <= Len(products) THEN products[index].id
     ELSE ""

convertToRankings(rankings, products) ==
  LET sorted == SortByPercentage(rankings) IN
  [index \in 1..Len(sorted) |->
     [productId |-> ProductIdFor(sorted[index], index, products),
      rank |-> index,
      percentage |-> sorted[index].percentage]]

ConvertRankings(rankings, products) ==
  /\ crPc = "idle"
  /\ crPc' = "done"
  /\ crProducts' = products
  /\ crEntries' = rankings
  /\ crSorted' = SortByPercentage(rankings)
  /\ crRankings' = convertToRankings(rankings, products)

\* every subsystem but the ranking conversion is idle
InitRankings ==
  /\ ClassifyIdle
  /\ DelayIdle
  /\ RetryIdle
  /\ LaterIdle

NextRankings ==
  /\ crPc = "idle"
  /\ \E rankings \in SeqsUpTo(SampleEntries, MaxRankings), products \in ProductLists :
       ConvertRankings(rankings, products) /\ UNCHANGED notRankingsVars

SpecRankings == InitRankings /\ [][NextRankings]_vars

\* the products whose name equals the entry name / partially matches it
ExactMatches(name) == {i \in 1..Len(crProducts) : crProducts[i].name = name}
PartialMatches(name) ==
  {i \in 1..Len(crProducts) :
     \/ Includes(ToLowerCase(crProducts[i].name), ToLowerCase(name))
     \/ Includes(ToLowerCase(name), ToLowerCase(crProducts[i].name))}
First(S) == CHOOSE i \in S : \A j \in S : i <= j

\* which matching step resolves the k-th sorted entry
MatchStep(k) ==
  IF ExactMatches(crSorted[k].product) # {} THEN "exact"
  ELSE IF PartialMatches(crSorted[k].product) # {} THEN "partial"
  ELSE "positional"

C29_EachProductAttributedOnce ==
  (crPc = "done" /\ Len(crEntries) = Len(crProducts)) =>
    /\ \A k \in 1..Len(crRankings) : crRankings[k].productId # ""
    /\ \A i, j \in 1..Len(crRankings) :
         i # j => crRankings[i].productId # crRankings[j].productId


(***************************************************************************)
(* The diagnostic endpoint                                                 *)
(***************************************************************************)
JsonHasKey == <<"{", "\"", "h", "a", "s", "A", "n", "t", "h", "r", "o", "p", "i", "c", "K", "e", "y", "\"", ":">>
JsonKeyLength == <<",", "\"", "k", "e", "y", "L", "e", "n", "g", "t", "h", "\"", ":">>
JsonNodeEnv == <<",", "\"", "n", "o", "d", "e", "E", "n", "v", "\"", ":">>
JsonKeyEcho == <<",", "\"", "k", "e", "y", "\"", ":">>
JsonTrue == <<"t", "r", "u", "e">>
JsonFalse == <<"f", "a", "l", "s", "e">>
JsonQuote == <<"\"">>
JsonClose == <<"}">>
EnvProduction == <<"p", "r", "o", "d", "u", "c", "t", "i", "o", "n">>
EnvDevelopment == <<"d", "e", "v", "e", "l", "o", "p", "m", "e", "n", "t">>
KeyOne == <<"s", "k", "-", "a", "n", "t", "-", "a", "p", "i", "0", "3", "-", "Z", "q", "8">>
KeyTwo == <<"s", "k", "-", "a", "n", "t", "-", "a", "p", "i", "0", "3", "-", "X", "w", "5">>
KeyLong == <<"s", "k", "-", "a", "n", "t", "-", "a", "p", "i", "0", "3", "-", "Z", "q", "8", "L", "m", "2">>
KeyShort == <<"s", "k", "-", "7">>
KeyOther == <<"s", "k", "-", "9">>

\* values of ANTHROPIC_API_KEY: unset, empty, and keys of three lengths
Credentials == {Absent, Str(<<>>), Str(KeyOne), Str(KeyTwo), Str(KeyLong), Str(KeyShort), Str(KeyOther)}
NodeEnvs == {Absent, Str(EnvProduction), Str(EnvDevelopment)}

\* process.env.ANTHROPIC_API_KEY?.length || 0
KeyLength(key) == IF key.t = "string" THEN Len(key.s) ELSE 0

\* JSON.stringify of a string without characters to escape
JsonString(s) == JsonQuote \o s \o JsonQuote

\* a response that also carries the key
DiagnosticResponseWithKey(key, env) ==
  JsonHasKey \o (IF ~Falsy(key) THEN JsonTrue ELSE JsonFalse)
    \o JsonKeyLength \o DecimalText(KeyLength(key))
    \o (IF key.t = "string" THEN JsonKeyEcho \o JsonString(key.s) ELSE <<>>)
    \o (IF env.t = "string" THEN JsonNodeEnv \o JsonString(env.s) ELSE <<>>)
    \o JsonClose

\* the body of NextResponse.json({ hasAnthropicKey, keyLength, nodeEnv });
\* an undefined nodeEnv is left out by JSON.stringify
DiagnosticResponse(key, env) ==
  JsonHasKey \o (IF ~Falsy(key) THEN JsonTrue ELSE JsonFalse)
    \o JsonKeyLength \o DecimalText(KeyLength(key))
    \o (IF env.t = "string" THEN JsonNodeEnv \o JsonString(env.s) ELSE <<>>)
    \o JsonClose

\* run r of GET
DiagnosticGet(r, key, env) ==
  /\ ~dgDone[r]
  /\ dgDone' = [dgDone EXCEPT ![r] = TRUE]
  /\ dgKey' = [dgKey EXCEPT ![r] = key]
  /\ dgEnv' = [dgEnv EXCEPT ![r] = env]
  /\ dgResponse' = [dgResponse EXCEPT ![r] = DiagnosticResponse(key, env)]

\* every subsystem but the diagnostic endpoint is idle
InitDiagnostic ==
  /\ ClassifyIdle
  /\ DelayIdle
  /\ RetryIdle
  /\ LaterIdle

NextDiagnostic ==
  \E r \in DiagnosticRuns, key \in Credentials, env \in NodeEnvs :
    DiagnosticGet(r, key, env) /\ UNCHANGED notDiagnosticVars

SpecDiagnostic == InitDiagnostic /\ [][NextDiagnostic]_vars

\* the credential is unset or empty
NoCredential(key) == key.t # "string" \/ key.s = <<>>

\* C22: two runs whose credentials have the same length, or are both
\* absent, answer identically; the response never contains the credential
\* value; an absent credential is reported as hasAnthropicKey = false with
\* keyLength = 0.
C22_OnlyPresenceAndLengthLeak ==
  /\ \A r \in DiagnosticRuns :
       dgDone[r] =>
         /\ ~NoCredential(dgKey[r]) => ~Includes(dgResponse[r], dgKey[r].s)
         /\ NoCredential(dgKey[r]) =>
              /\ Includes(dgResponse[r], JsonHasKey \o JsonFalse)
              /\ Includes(dgResponse[r], JsonKeyLength \o <<"0">>)
  /\ (/\ dgDone[1]
      /\ dgDone[2]
      /\ dgEnv[1] = dgEnv[2]
      /\ \/ NoCredential(dgKey[1]) /\ NoCredential(dgKey[2])
         \/ /\ ~NoCredential(dgKey[1])
            /\ ~NoCredential(dgKey[2])
            /\ Len(dgKey[1].s) = Len(dgKey[2].s))
       => dgResponse[1] = dgResponse[2]

\* two runs with different credentials of one length have answered
C22_Witness ==
  /\ dgDone[1]
  /\ dgDone[2]
  /\ dgEnv[1] = dgEnv[2]
  /\ dgKey[1] = Str(KeyOne)
  /\ dgKey[2] = Str(KeyTwo)
  /\ dgResponse[1] = dgResponse[2]


(***************************************************************************)
(* ScrapeOpsDataParser.parseShippingDays                                   *)
(***************************************************************************)
PatInStock == <<"i", "n", " ", "s", "t", "o", "c", "k">>
PatToday == <<"t", "o", "d", "a", "y">>
PatTomorrow == <<"t", "o", "m", "o", "r", "r", "o", "w">>
PatDelivery == <<"d", "e", "l", "i", "v", "e", "r", "y">>
PatArrive == <<"a", "r", "r", "i", "v", "e">>
PatShip == <<"s", "h", "i", "p">>
PatWithin == <<"w", "i", "t", "h", "i", "n">>
PatDay == <<"d", "a", "y">>
ShipInStock == <<"I", "n", " ", "S", "t", "o", "c", "k">>
ShipOnlyLeft == <<"O", "n", "l", "y", " ", "3", " ", "l", "e", "f", "t", " ", "i", "n", " ", "s", "t", "o", "c", "k", " ", "-", " ", "o", "r", "d", "e", "r", " ", "s", "o", "o", "n">>
ShipWithin2 == <<"S", "h", "i", "p", "s", " ", "w", "i", "t", "h", "i", "n", " ", "2", " ", "d", "a", "y", "s">>
ShipWithin10 == <<"U", "s", "u", "a", "l", "l", "y", " ", "s", "h", "i", "p", "s", " ", "w", "i", "t", "h", "i", "n", " ", "1", "0", " ", "d", "a", "y", "s">>
ShipFreeDelivery == <<"F", "R", "E", "E", " ", "d", "e", "l", "i", "v", "e", "r", "y", " ", "A", "p", "r", "i", "l", " ", "1", "5">>
ShipDeliveryWeekday == <<"d", "e", "l", "i", "v", "e", "r", "y", " ", "M", "o", "n", "d", "a", "y", ",", " ", "A", "p", "r", "i", "l", " ", "1", "5">>
ShipArrivesWeekday == <<"A", "r", "r", "i", "v", "e", "s", ":", " ", "M", "o", "n", "d", "a", "y", ",", " ", "A", "p", "r", "i", "l", " ", "1", "5">>
ShipArrivesJanuary == <<"A", "r", "r", "i", "v", "e", "s", " ", "J", "a", "n", "u", "a", "r", "y", " ", "2">>
ShipToday == <<"G", "e", "t", " ", "i", "t", " ", "t", "o", "d", "a", "y">>
ShipTomorrow == <<"A", "r", "r", "i", "v", "e", "s", " ", "T", "o", "m", "o", "r", "r", "o", "w">>
ShipInStockTomorrow == <<"I", "n", " ", "s", "t", "o", "c", "k", " ", "-", " ", "g", "e", "t", " ", "i", "t", " ", "t", "o", "m", "o", "r", "r", "o", "w">>
ShipUnavailable == <<"C", "u", "r", "r", "e", "n", "t", "l", "y", " ", "u", "n", "a", "v", "a", "i", "l", "a", "b", "l", "e">>
ShipEmpty == <<>>

ShippingTexts ==
  {ShipInStock, ShipOnlyLeft, ShipWithin2, ShipWithin10, ShipFreeDelivery, ShipDeliveryWeekday,
   ShipArrivesWeekday, ShipArrivesJanuary, ShipToday, ShipTomorrow, ShipInStockTomorrow,
   ShipUnavailable, ShipEmpty}

\* character classes of the regular expressions: \s, \d, \w
IsSpaceChar(c) == c = " "
IsDigitChar(c) == c \in CharsOf(Digits)
IsWordChar(c) == c \in CharsOf(UpperChars) \cup CharsOf(LowerChars) \cup CharsOf(Digits) \cup {"_"}

\* the position behind the longest run of characters of a class from i on
RunEnd(s, i, InClass(_)) ==
  CHOOSE j \in i..(Len(s) + 1) :
    /\ \A k \in i..(j - 1) : InClass(s[k])
    /\ j = Len(s) + 1 \/ ~InClass(s[j])

\* pat stands in s at position i
PrefixAt(s, i, pat) ==
  i + Len(pat) - 1 <= Len(s) /\ SubSeq(s, i, i + Len(pat) - 1) = pat

\* the position behind an optional character c at i
SkipOptional(s, i, c) == IF i <= Len(s) /\ s[i] = c THEN i + 1 ELSE i

\* the first position at which Capture is not empty, 0 when there is none
FirstCapture(s, Capture(_)) ==
  IF \E i \in 1..Len(s) : Capture(i) # <<>>
    THEN Capture(CHOOSE i \in 1..Len(s) : Capture(i) # <<>> /\ \A j \in 1..(i - 1) : Capture(j) = <<>>)
    ELSE <<>>

\* group 1 of /delivery\s+(\w+\s+\d+)/i matched at position i of the
\* lower-cased text
DeliveryCaptureAt(s, i) ==
  LET p == i + Len(PatDelivery)
      a == RunEnd(s, p, IsSpaceChar)
      k == RunEnd(s, a, IsWordChar)
      c == RunEnd(s, k, IsSpaceChar)
      d == RunEnd(s, c, IsDigitChar)
  IN IF PrefixAt(s, i, PatDelivery) /\ a > p /\ k > a /\ c > k /\ d > c
       THEN SubSeq(s, a, d - 1) ELSE <<>>

\* the end of group 1 of the arrives pattern when the group starts at p, its
\* first \w+ ends before a and its second \w+ ends before c; 0 when the rest
\* of the pattern does not match
ArrivesGroupEnd(s, p, a, c) ==
  LET firstEnd == RunEnd(s, p, IsWordChar)
      q == IF a = firstEnd THEN RunEnd(s, SkipOptional(s, a, ","), IsSpaceChar) ELSE a
      secondEnd == RunEnd(s, q, IsWordChar)
      r == IF c = secondEnd THEN RunEnd(s, c, IsSpaceChar) ELSE c
      d == RunEnd(s, r, IsDigitChar)
  IN IF a \in (p + 1)..firstEnd /\ c \in (q + 1)..secondEnd /\ d > r THEN d ELSE 0

\* group 1 of (\w+,?\s*\w+\s*\d+) starting at p: the longest first word, and
\* for it the longest second word, for which digits follow
ArrivesGroupAt(s, p) ==
  LET ends == (p + 1)..(Len(s) + 1)
      matches == {m \in ends \X ends : ArrivesGroupEnd(s, p, m[1], m[2]) # 0}
  IN IF matches = {} THEN <<>>
     ELSE LET best == CHOOSE m \in matches :
                        \A o \in matches : o[1] < m[1] \/ (o[1] = m[1] /\ o[2] <= m[2])
          IN SubSeq(s, p, ArrivesGroupEnd(s, p, best[1], best[2]) - 1)

\* group 1 of /arrives?:?\s*(\w+,?\s*\w+\s*\d+)/i matched at position i of
\* the lower-cased text: with the optional s taken, and without it otherwise
ArrivesCaptureAt(s, i) ==
  LET e == i + Len(PatArrive)
      greedy == ArrivesGroupAt(s, RunEnd(s, SkipOptional(s, SkipOptional(s, e, "s"), ":"), IsSpaceChar))
      withoutS == ArrivesGroupAt(s, e)
  IN IF ~PrefixAt(s, i, PatArrive) THEN <<>>
     ELSE IF greedy # <<>> THEN greedy
     ELSE withoutS

\* group 1 of /ships?\s+within\s+(\d+)\s+days?/i matched at position i
ShipsWithinCaptureAt(s, i) ==
  LET p == SkipOptional(s, i + Len(PatShip), "s")
      a == RunEnd(s, p, IsSpaceChar)
      b == a + Len(PatWithin)
      c == RunEnd(s, b, IsSpaceChar)
      d == RunEnd(s, c, IsDigitChar)
      e == RunEnd(s, d, IsSpaceChar)
  IN IF PrefixAt(s, i, PatShip) /\ a > p /\ PrefixAt(s, a, PatWithin) /\ c > b /\ d > c
        /\ e > d /\ PrefixAt(s, e, PatDay)
       THEN SubSeq(s, c, d - 1) ELSE <<>>

RECURSIVE ParseInt(_)
\* parseInt of a run of digits
ParseInt(q) ==
  IF q = <<>> THEN 0
  ELSE 10 * ParseInt(SubSeq(q, 1, Len(q) - 1))
         + ((CHOOSE n \in 1..10 : Digits[n] = q[Len(q)]) - 1)


MonthNames == <<<<"j", "a", "n", "u", "a", "r", "y">>,
               <<"f", "e", "b", "r", "u", "a", "r", "y">>,
               <<"m", "a", "r", "c", "h">>,
               <<"a", "p", "r", "i", "l">>,
               <<"m", "a", "y">>,
               <<"j", "u", "n", "e">>,
               <<"j", "u", "l", "y">>,
               <<"a", "u", "g", "u", "s", "t">>,
               <<"s", "e", "p", "t", "e", "m", "b", "e", "r">>,
               <<"o", "c", "t", "o", "b", "e", "r">>,
               <<"n", "o", "v", "e", "m", "b", "e", "r">>,
               <<"d", "e", "c", "e", "m", "b", "e", "r">>>>
WeekdayNames == {<<"m", "o", "n", "d", "a", "y">>,
                 <<"t", "u", "e", "s", "d", "a", "y">>,
                 <<"w", "e", "d", "n", "e", "s", "d", "a", "y">>,
                 <<"t", "h", "u", "r", "s", "d", "a", "y">>,
                 <<"f", "r", "i", "d", "a", "y">>,
                 <<"s", "a", "t", "u", "r", "d", "a", "y">>,
                 <<"s", "u", "n", "d", "a", "y">>}
\* the days of the months of a common year
MonthDays == <<31, 28, 31, 30, 31, 30, 31, 31, 30, 31, 30, 31>>
YearDays == 365

CalendarDay(month, day) == [month |-> month, day |-> day]

RECURSIVE DaysBeforeMonth(_)
DaysBeforeMonth(m) == IF m = 1 THEN 0 ELSE DaysBeforeMonth(m - 1) + MonthDays[m - 1]

\* the number of the day within its year
DayOfYear(date) == DaysBeforeMonth(date.month) + date.day

\* the result of arithmetic on an Invalid Date
NotANumber == -1

InvalidDate == [valid |-> FALSE, month |-> 0, day |-> 0]

\* new Date(dateString + ', ' + currentYear) for the lower-cased capture:
\* an optional weekday, a month name and the day of the month
ParseDate(q) ==
  LET weekdays == {w \in WeekdayNames : PrefixAt(q, 1, w)}
      afterWeekday ==
        IF weekdays = {} THEN 1
        ELSE RunEnd(q, SkipOptional(q, Len(CHOOSE w \in weekdays : TRUE) + 1, ","), IsSpaceChar)
      monthsAt == {m \in 1..Len(MonthNames) : PrefixAt(q, afterWeekday, MonthNames[m])}
  IN IF monthsAt = {} THEN InvalidDate
     ELSE LET m == CHOOSE x \in monthsAt : TRUE
              c == RunEnd(q, afterWeekday + Len(MonthNames[m]), IsSpaceChar)
              d == RunEnd(q, c, IsDigitChar)
          IN IF d > c /\ d = Len(q) + 1
               THEN [valid |-> TRUE, month |-> m, day |-> ParseInt(SubSeq(q, c, d - 1))]
               ELSE InvalidDate

\* calculateDaysFromDate, in a common year followed by a common year
calculateDaysFromDate(dateString, today) ==
  LET target == ParseDate(dateString) IN
  IF ~target.valid THEN NotANumber
  ELSE LET diffDays ==
             IF DayOfYear(target) < DayOfYear(today)
               THEN DayOfYear(target) + YearDays - DayOfYear(today)
               ELSE DayOfYear(target) - DayOfYear(today)
       IN IF diffDays > 0 THEN diffDays ELSE 0

parseShippingDays(shippingText, today) ==
  IF shippingText = <<>> THEN 5
  ELSE LET s == ToLowerCase(shippingText)
           arrivesMatch == FirstCapture(s, LAMBDA i : ArrivesCaptureAt(s, i))
           deliveryMatch == FirstCapture(s, LAMBDA i : DeliveryCaptureAt(s, i))
           shipsWithinMatch == FirstCapture(s, LAMBDA i : ShipsWithinCaptureAt(s, i))
       IN IF Includes(s, PatToday) THEN 0
          ELSE IF Includes(s, PatTomorrow) THEN 1
          ELSE IF Includes(s, PatInStock) THEN 3
          ELSE IF arrivesMatch # <<>> THEN calculateDaysFromDate(arrivesMatch, today)
          ELSE IF deliveryMatch # <<>> THEN calculateDaysFromDate(deliveryMatch, today)
          ELSE IF shipsWithinMatch # <<>> THEN ParseInt(shipsWithinMatch)
          ELSE 5

\* the days on which the text is parsed
Todays ==
  {CalendarDay(4, d) : d \in {1, 10, 14, 15, 16, 30}}
    \cup {CalendarDay(1, 1), CalendarDay(1, 2), CalendarDay(3, 31), CalendarDay(12, 31)}

ParseShipping(text, today) ==
  /\ psPc = "idle"
  /\ psPc' = "done"
  /\ psText' = text
  /\ psToday' = today
  /\ psDays' = parseShippingDays(text, today)

\* every subsystem but the shipping-text parser is idle
InitShipping ==
  /\ ClassifyIdle
  /\ DelayIdle
  /\ RetryIdle
  /\ LaterIdle

NextShipping ==
  /\ psPc = "idle"
  /\ \E text \in ShippingTexts, today \in Todays :
       ParseShipping(text, today) /\ UNCHANGED notShippingVars

SpecShipping == InitShipping /\ [][NextShipping]_vars

April15 == CalendarDay(4, 15)

\* C24: a text containing 'in stock' gives 3, 'ships within N days' gives
\* N, 'delivery Monday, April 15' parsed before that day gives the positive
\* number of calendar days up to it, 'today' gives 0, 'tomorrow' gives 1,
\* and a text matching no pattern, or an empty text, gives the default 5.
C24_ShippingDaysByPattern ==
  psPc = "done" =>
    /\ Includes(ToLowerCase(psText), PatInStock) => psDays = 3
    /\ psText = ShipWithin2 => psDays = 2
    /\ psText = ShipWithin10 => psDays = 10
    /\ (psText = ShipDeliveryWeekday /\ DayOfYear(psToday) < DayOfYear(April15)) =>
         /\ psDays = DayOfYear(April15) - DayOfYear(psToday)
         /\ psDays > 0
    /\ psText = ShipToday => psDays = 0
    /\ psText = ShipTomorrow => psDays = 1
    /\ psText \in {ShipUnavailable, ShipEmpty} => psDays = 5


(***************************************************************************)
(* AnalysisContext: analysisReducer, validateStepCompletion and            *)
(* saveStateToStorage                                                      *)
(***************************************************************************)

MaxWizardProducts == 6

Steps == 1..5

\* calculations is null, an empty array or an array of scores
validateStepCompletion(state, step) ==
  CASE step = 1 -> state.analysisType # "null"
    [] step = 2 -> IF state.analysisType = "core6"
                     THEN Len(state.products) = 6
                     ELSE Len(state.products) = 5
    [] step = 3 -> /\ state.polls.mainImage # "null"
                   /\ state.polls.imageStack # "null"
                   /\ state.polls.features # "null"
    [] step = 4 -> state.calculations = "scores"
    [] step = 5 -> state.calculations # "null"
    [] OTHER -> FALSE

canNavigate(state, action) ==
  \/ action.force
  \/ action.step <= state.currentStep
  \/ validateStepCompletion(state, action.step - 1)

\* pollKey of SET_POLL_RESULT
PollKey(type) ==
  CASE type = "main_image" -> "mainImage"
    [] type = "image_stack" -> "imageStack"
    [] type = "features" -> "features"

\* the state the reducer returns; the actions on fields that navigation does
\* not read (canProceed, currentProductIndex, collectionMethod, preparedBy,
\* productCategory) are the one type SET_OTHER_FIELD
analysisReducer(state, action) ==
  CASE action.type = "SET_ANALYSIS_TYPE" ->
         [state EXCEPT !.analysisType = action.payload, !.currentStep = 2]
    [] action.type = "SET_CURRENT_STEP" ->
         [state EXCEPT !.currentStep = action.payload]
    [] action.type = "NAVIGATE_TO_STEP" ->
         IF canNavigate(state, action)
           THEN [state EXCEPT !.currentStep = action.step]
           ELSE state
    [] action.type = "ADD_PRODUCT" ->
         [state EXCEPT !.products = Append(@, action.payload)]
    [] action.type = "UPDATE_PRODUCT" ->
         [state EXCEPT !.products[action.index] = action.product]
    [] action.type = "SET_POLL_RESULT" ->
         [state EXCEPT !.polls[PollKey(action.pollType)] = action.result]
    [] action.type = "SET_CALCULATIONS" ->
         [state EXCEPT !.calculations = action.payload]
    [] action.type = "SET_PRODUCTS_BULK" ->
         [state EXCEPT !.products = action.payload]
    [] action.type = "SET_OTHER_FIELD" -> state
    [] action.type = "RESET_ANALYSIS" -> FreshState

\* the reducer calls saveStateToStorage on the state it returns
Saves(state, action) ==
  /\ action.type # "RESET_ANALYSIS"
  /\ action.type = "NAVIGATE_TO_STEP" => canNavigate(state, action)

\* what the browser does to the writes of one save: the first setItem works,
\* fails for another reason than the quota, or exceeds the quota; then the
\* second setItem works or fails; then the user confirms and the setItem
\* without images works or fails, or the user cancels
SaveOutcomes ==
  {"stored", "otherError", "storedOnRetry", "storedWithoutImages", "fallbackFailed",
   "cancelled"}

\* the item in storage after saveStateToStorage
saveStateToStorage(item, outcome) ==
  CASE outcome = "stored" -> "full"
    [] outcome = "otherError" -> item
    [] outcome = "storedOnRetry" -> "full"
    [] outcome = "storedWithoutImages" -> "withoutImages"
    [] outcome = "fallbackFailed" -> "absent"
    [] outcome = "cancelled" -> "absent"

\* how the save ended
SaveResult(outcome) ==
  CASE outcome \in {"stored", "storedOnRetry"} -> "saved"
    [] outcome = "storedWithoutImages" -> "savedWithoutImages"
    [] outcome \in {"otherError", "fallbackFailed", "cancelled"} -> "failed"

Dispatch(action) ==
  /\ wzState' = analysisReducer(wzState, action)
  /\ IF action.type = "RESET_ANALYSIS"
       THEN lsItem' = "absent" /\ wzSave' = "none"
       ELSE IF Saves(wzState, action)
         THEN \E outcome \in SaveOutcomes :
                /\ lsItem' = saveStateToStorage(lsItem, outcome)
                /\ wzSave' = SaveResult(outcome)
         ELSE lsItem' = lsItem /\ wzSave' = "none"

SetAnalysisType ==
  \E payload \in {"core5", "core6"} :
    Dispatch([type |-> "SET_ANALYSIS_TYPE", payload |-> payload])

SetCurrentStep ==
  \E payload \in Steps :
    Dispatch([type |-> "SET_CURRENT_STEP", payload |-> payload])

NavigateToStep ==
  \E step \in Steps, force \in BOOLEAN :
    Dispatch([type |-> "NAVIGATE_TO_STEP", step |-> step, force |-> force])

AddProduct ==
  /\ Len(wzState.products) < MaxWizardProducts
  /\ Dispatch([type |-> "ADD_PRODUCT", payload |-> ProductEntry])

UpdateProduct ==
  \E index \in 1..Len(wzState.products) :
    Dispatch([type |-> "UPDATE_PRODUCT", index |-> index, product |-> ProductEntry])

SetPollResult ==
  \E pollType \in {"main_image", "image_stack", "features"} :
    Dispatch([type |-> "SET_POLL_RESULT", pollType |-> pollType, result |-> "result"])

SetCalculations ==
  \E payload \in {"empty", "scores"} :
    Dispatch([type |-> "SET_CALCULATIONS", payload |-> payload])

SetProductsBulk ==
  \E n \in 0..MaxWizardProducts :
    Dispatch([type |-> "SET_PRODUCTS_BULK", payload |-> [i \in 1..n |-> ProductEntry]])

SetOtherField == Dispatch([type |-> "SET_OTHER_FIELD"])

ResetAnalysis == Dispatch([type |-> "RESET_ANALYSIS"])

\* every subsystem but the wizard is idle
InitWizard ==
  /\ ClassifyIdle
  /\ DelayIdle
  /\ RetryIdle
  /\ LaterIdle

NextWizard ==
  \/ SetAnalysisType /\ UNCHANGED notWizardVars
  \/ SetCurrentStep /\ UNCHANGED notWizardVars
  \/ NavigateToStep /\ UNCHANGED notWizardVars
  \/ AddProduct /\ UNCHANGED notWizardVars
  \/ UpdateProduct /\ UNCHANGED notWizardVars
  \/ SetPollResult /\ UNCHANGED notWizardVars
  \/ SetCalculations /\ UNCHANGED notWizardVars
  \/ SetProductsBulk /\ UNCHANGED notWizardVars
  \/ SetOtherField /\ UNCHANGED notWizardVars
  \/ ResetAnalysis /\ UNCHANGED notWizardVars

SpecWizard == InitWizard /\ [][NextWizard]_vars

\* C23: whenever the wizard is on a step k > 1, step k - 1 is complete per
\* validateStepCompletion.
C23_StepReachedOnlyAfterPreviousComplete ==
  wzState.currentStep > 1 => validateStepCompletion(wzState, wzState.currentStep - 1)

\* C30: a save that fails leaves the item of the last successful save in
\* storage.
C30_FailedSaveKeepsLastSavedState ==
  [][(wzSave' = "failed" /\ lsItem # "absent") => lsItem' = lsItem]_vars


(***************************************************************************)
(* runPollSimulation for the image-based polls                             *)
(***************************************************************************)

MaxPollProducts == 3

TextNoValidImagesHead == <<"N", "o", " ", "v", "a", "l", "i", "d", " ", "i", "m", "a", "g", "e", "s", " ", "f", "o", "u", "n", "d", " ", "f", "o", "r", " ", "i", "m", "a", "g", "e", "-", "b", "a", "s", "e", "d", " ", "p", "o", "l", "l", ".", " ", "A", "n", "a", "l", "y", "z", "e", "d", " ">>
TextNoValidImagesTail == <<" ", "p", "r", "o", "d", "u", "c", "t", "s", ".", " ", "P", "l", "e", "a", "s", "e", " ", "e", "n", "s", "u", "r", "e", " ", "a", "l", "l", " ", "p", "r", "o", "d", "u", "c", "t", "s", " ", "h", "a", "v", "e", " ", "v", "a", "l", "i", "d", " ", "i", "m", "a", "g", "e", " ", "d", "a", "t", "a", ".">>

ImagePollTypes == {"main_image", "image_stack"}

\* the image data of a product: accepted or refused by processBase64Image
ImageKinds == {"valid", "invalid"}

ProductSets == UNION {[1..n -> ImageKinds] : n \in 1..MaxPollProducts}

\* the values of Math.floor(Math.random() * (i + 1)) of one shuffle, by the
\* position i they are drawn for
RandomChoices(n) == {js \in [1..n -> 1..n] : \A i \in 1..n : js[i] <= i}

Swap(q, i, j) == [q EXCEPT ![i] = q[j], ![j] = q[i]]

RECURSIVE ShuffleFrom(_, _, _)
ShuffleFrom(q, i, js) ==
  IF i <= 1 THEN q ELSE ShuffleFrom(Swap(q, i, js[i]), i - 1, js)

\* the Fisher-Yates loop over the products, kept as their original indexes
FisherYates(n, js) == ShuffleFrom([i \in 1..n |-> i], n, js)

\* generateUserPrompt: 'Product k' of the list is the k-th shuffled product
generateUserPrompt(n, js) == FisherYates(n, js)

LabelItem(k, p) == [type |-> "text", label |-> k, product |-> p]
ImageItem(p) == [type |-> "image", label |-> 0, product |-> p]

\* what the forEach over the shuffled products pushes for position k
ProductContent(pollType, kinds, p, k) ==
  IF pollType = "main_image"
    THEN IF kinds[p] = "valid" THEN <<LabelItem(k, p), ImageItem(p)>> ELSE <<>>
    ELSE <<LabelItem(k, p)>> \o (IF kinds[p] = "valid" THEN <<ImageItem(p)>> ELSE <<>>)

RECURSIVE ContentUpTo(_, _, _, _)
ContentUpTo(pollType, kinds, order, k) ==
  IF k = 0 THEN <<>>
  ELSE ContentUpTo(pollType, kinds, order, k - 1)
         \o ProductContent(pollType, kinds, order[k], k)

\* messageContent behind the prompt text
MessageContent(pollType, kinds, js) ==
  ContentUpTo(pollType, kinds, FisherYates(Len(kinds), js), Len(kinds))

ImageCount(content) == Cardinality({i \in 1..Len(content) : content[i].type = "image"})

NoValidImagesError(n) ==
  NewError(TextNoValidImagesHead \o DecimalText(n) \o TextNoValidImagesTail)

ImagePollConfig == WithOnRetry(DEFAULT_POLL_RETRY_CONFIG)

\* withRetry's catch block for error e of attempt att, and the outer catch
\* block of runPollSimulation when withRetry rejects
ImagePollCatch(e, att) ==
  LET d == RetryDecision(e, att, ImagePollConfig) IN
  IF d.next = "sleep"
    THEN /\ ipPc' = "sleeping"
         /\ ipResult' = ipResult
    ELSE /\ ipPc' = "done"
         /\ ipResult' = AdapterRejects(PollCatch(d.error))

\* one pass of withRetry's loop up to the await of messages.create or to
\* the throw for a message without images
ImagePollAttempt(att, pollType, kinds, js) ==
  LET content == MessageContent(pollType, kinds, js) IN
  /\ ipAttempt' = att
  /\ ipContent' = content
  /\ IF ImageCount(content) = 0
       THEN /\ ImagePollCatch(NoValidImagesError(Len(kinds)), att)
            /\ ipRequests' = ipRequests
       ELSE /\ ipPc' = "awaiting"
            /\ ipRequests' = ipRequests + 1
            /\ ipResult' = ipResult

ImagePollCall(pollType, kinds, promptJs, imageJs) ==
  /\ ipPc = "idle"
  /\ ipPollType' = pollType
  /\ ipKinds' = kinds
  /\ ipPromptOrder' = generateUserPrompt(Len(kinds), promptJs)
  /\ ImagePollAttempt(1, pollType, kinds, imageJs)

\* anthropic.messages.create rejects with e
ImagePollFails(e) ==
  /\ ipPc = "awaiting"
  /\ ImagePollCatch(e, ipAttempt)
  /\ UNCHANGED <<ipPollType, ipKinds, ipPromptOrder, ipContent, ipAttempt, ipRequests>>

\* the backoff sleep ends: the message is built again
ImagePollSleepDone(imageJs) ==
  /\ ipPc = "sleeping"
  /\ ipAttempt < MaxAttempts
  /\ ImagePollAttempt(ipAttempt + 1, ipPollType, ipKinds, imageJs)
  /\ UNCHANGED <<ipPollType, ipKinds, ipPromptOrder>>

\* anthropic.messages.create resolves and withRetry returns the response
ImagePollResponds ==
  /\ ipPc = "awaiting"
  /\ ipPc' = "answered"
  /\ UNCHANGED <<ipPollType, ipKinds, ipPromptOrder, ipContent, ipAttempt, ipRequests, ipResult>>

ImagePollErrors == {RateLimitError, AuthError}

\* every subsystem but the image poll is idle
InitImagePoll ==
  /\ ClassifyIdle
  /\ DelayIdle
  /\ RetryIdle
  /\ LaterIdle

NextImagePoll ==
  \/ /\ ipPc = "idle"
     /\ \E pollType \in ImagePollTypes, kinds \in ProductSets :
          \E promptJs \in RandomChoices(Len(kinds)), imageJs \in RandomChoices(Len(kinds)) :
            ImagePollCall(pollType, kinds, promptJs, imageJs) /\ UNCHANGED notImagePollVars
  \/ \E e \in ImagePollErrors : ImagePollFails(e) /\ UNCHANGED notImagePollVars
  \/ /\ ipPc = "sleeping"
     /\ \E imageJs \in RandomChoices(Len(ipKinds)) :
          ImagePollSleepDone(imageJs) /\ UNCHANGED notImagePollVars
  \/ ImagePollResponds /\ UNCHANGED notImagePollVars

SpecImagePoll == InitImagePoll /\ [][NextImagePoll]_vars

\* C26: in every message of an image-based poll the images under the label
\* 'Product k' are those of the product the text prompt lists as
\* 'Product k', on the first attempt and on every later one.
C26_ImageLabelsMatchPromptLabels ==
  \A i \in 1..Len(ipContent) :
    ipContent[i].type = "text" => ipPromptOrder[ipContent[i].label] = ipContent[i].product

\* an image-based poll is under way and no product has a valid image
NoValidImagePoll == ipPc # "idle" /\ \A p \in 1..Len(ipKinds) : ipKinds[p] = "invalid"

\* C27: an image-based poll in which no product yields a valid image sends
\* no request to the LLM service and ends rejected after finitely many
\* attempts: withRetry's counter stays below every bound MaxAttempts unless
\* the poll has ended.
C27_NoValidImagePollTerminates ==
  NoValidImagePoll =>
    /\ ipRequests = 0
    /\ \/ ipPc = "done" /\ ipResult.how = "rejected"
       \/ ipAttempt < MaxAttempts

====
